---- MODULE Spec2Model ----
(***************************************************************************)
(* Sale Event Analytics Engine: episode detection (src/src/sales.py),      *)
(* metrics (src/src/metrics.py) and tail-validation segmentation           *)
(* (src/scripts/build_tail_validation.py).                                 *)
(*                                                                         *)
(* Conventions.  A nullable value (None / NaN / pd.NA) is the empty        *)
(* sequence <<>>; a present value v is <<v>>.  Calendar dates are          *)
(* proleptic Gregorian ordinals (date.toordinal()).  A data frame is a     *)
(* set of rows when its row order is not relied on by the code (the code   *)
(* sorts it), and a sequence of rows otherwise.                            *)
(***************************************************************************)
EXTENDS Integers, Sequences, FiniteSets, TLC

VARIABLES
    panel,          \* sales.py: the daily panel, a set of rows (app_id, date, players_avg, discount_pct)
    today,          \* per app, the ordinal of the last calendar date the panel covers
    config,         \* the configuration mapping handed to detect_sales
    pc,             \* "idle" | "ok" | "error": outcome of the last detect_sales run on this panel
    cadence_cache,  \* sales.py:128 per app: detected episodes and discount-day dates
    sales,          \* the sale records detect_sales returns (sequence)
    info,           \* the {"excluded": n} dictionary detect_sales returns
    decay_sale,       \* metrics.py: the sale whose decay is computed
    decay,          \* the value compute_decay_days_to_baseline returned (Null is None)
    decay_summary,  \* build_tail_validation.py: compute_decay's (decay_day, decay_censored)
    event_window,   \* metrics.py: the event-window frame (sequence of rows)
    aul,            \* the value compute_aul returned (Null is NaN)
    merged,         \* the frame add_sale_metrics returned
    passes,         \* how many times add_sale_metrics has run on this input
    bucketed,       \* metrics.py: the frame add_buckets returned
    playbook,       \* the table build_playbook_table returned (set of rows)
    df,             \* build_tail_validation.py: the caller's event frame (sequence of rows)
    returned,       \* the frame the last collapse_tiers_for_segment call returned
    tier_order,     \* the tier order that call returned
    notes,          \* the notes list the caller hands to every call
    calls,          \* the segment arguments of the calls made so far, in order
    baseline_value, \* build_tail_validation.py: the baseline_value series, as runs [value, n]
    assigned,       \* the outcome of each assign_segments call on it, in call order
    columns,        \* the columns of the frame handed in: column name to number of non-null cells
    outcome,        \* what the run on that frame gave: the error raised or the result
    peaks,          \* build_tail_validation.py: what compute_peaks made of the event frame
    path,           \* normalize.py: the path handed to infer_app_id_from_path (Null is None)
    inferred,       \* what infer_app_id_from_path did with it
    sale_span,      \* sales.py: the start and end date handed to _seasonal_overlap
    tagged,         \* what _seasonal_overlap returned for them
    bias_df,        \* build_tail_validation.py: the event frame handed to preperiod_bias_check
    warnings        \* the baseline floor of the check and the list it returned

vars == <<panel, today, config, pc, cadence_cache, sales, info, decay_sale, decay, decay_summary,
          event_window, aul, merged, passes, bucketed, playbook, df, returned, tier_order, notes, calls,
          baseline_value, assigned,
          columns, outcome,
          peaks,
          path, inferred,
          sale_span, tagged,
          bias_df, warnings>>

\* Each specification below drives one part of the engine; the variables of
\* the other parts are parked at <<>> and never change under it.
metricsState == <<event_window, aul, merged, passes>>
ParkedMetrics == event_window = <<>> /\ aul = <<>> /\ merged = <<>> /\ passes = <<>>
decayState == <<decay_sale, decay, decay_summary>>
ParkedDecay == decay_sale = <<>> /\ decay = <<>> /\ decay_summary = <<>>
detectState == <<today, cadence_cache, info>>
ParkedDetect == today = <<>> /\ cadence_cache = <<>> /\ info = <<>>
bucketState == <<bucketed, playbook>>
ParkedBuckets == bucketed = <<>> /\ playbook = <<>>
collapseState == <<df, returned, tier_order, notes, calls>>
ParkedCollapse ==
    df = <<>> /\ returned = <<>> /\ tier_order = <<>> /\ notes = <<>> /\ calls = <<>>
segmentState == <<baseline_value, assigned>>
ParkedSegments == baseline_value = <<>> /\ assigned = <<>>
inputState == <<columns, outcome>>
ParkedInputs == columns = <<>> /\ outcome = <<>>
peakState == <<peaks>>
ParkedPeaks == peaks = <<>>
pathState == <<path, inferred>>
ParkedPath == path = <<>> /\ inferred = <<>>
seasonState == <<sale_span, tagged>>
ParkedSeason == sale_span = <<>> /\ tagged = <<>>
biasState == <<bias_df, warnings>>
ParkedBias == bias_df = <<>> /\ warnings = <<>>

outsideSales == <<decayState, metricsState, bucketState, collapseState, segmentState, inputState, peakState, pathState, seasonState, biasState>>
ParkedOutsideSales == ParkedDecay /\ ParkedMetrics /\ ParkedBuckets /\ ParkedCollapse /\ ParkedSegments /\ ParkedInputs /\ ParkedPeaks /\ ParkedPath /\ ParkedSeason /\ ParkedBias
outsideDecay == <<cadence_cache, sales, info, metricsState, bucketState, collapseState, segmentState, inputState, peakState, pathState, seasonState, biasState>>
ParkedOutsideDecay ==
    /\ cadence_cache = <<>> /\ sales = <<>> /\ info = <<>>
    /\ ParkedMetrics /\ ParkedBuckets /\ ParkedCollapse
    /\ ParkedSegments
    /\ ParkedInputs
    /\ ParkedPeaks
    /\ ParkedPath
    /\ ParkedSeason
    /\ ParkedBias
outsideAul == <<panel, config, sales, merged, passes, detectState, decayState, bucketState, collapseState, segmentState, inputState, peakState, pathState, seasonState, biasState>>
ParkedOutsideAul ==
    /\ panel = <<>> /\ config = <<>> /\ sales = <<>> /\ merged = <<>> /\ passes = <<>>
    /\ ParkedDetect /\ ParkedDecay /\ ParkedBuckets /\ ParkedCollapse
    /\ ParkedSegments
    /\ ParkedInputs
    /\ ParkedPeaks
    /\ ParkedPath
    /\ ParkedSeason
    /\ ParkedBias
outsideMetrics == <<aul, detectState, decayState, bucketState, collapseState, segmentState, inputState, peakState, pathState, seasonState, biasState>>
ParkedOutsideMetrics == aul = <<>> /\ ParkedDetect /\ ParkedDecay /\ ParkedBuckets /\ ParkedCollapse /\ ParkedSegments /\ ParkedInputs /\ ParkedPeaks /\ ParkedPath /\ ParkedSeason /\ ParkedBias
outsideBuckets == <<panel, detectState, decayState, metricsState, collapseState, segmentState, inputState, peakState, pathState, seasonState, biasState>>
ParkedOutsideBuckets == panel = <<>> /\ ParkedDetect /\ ParkedDecay /\ ParkedMetrics /\ ParkedCollapse /\ ParkedSegments /\ ParkedInputs /\ ParkedPeaks /\ ParkedPath /\ ParkedSeason /\ ParkedBias
outsideCollapse == <<panel, config, sales, detectState, decayState, metricsState, bucketState, segmentState, inputState, peakState, pathState, seasonState, biasState>>
ParkedOutsideCollapse ==
    /\ panel = <<>> /\ config = <<>> /\ sales = <<>>
    /\ ParkedDetect /\ ParkedDecay /\ ParkedMetrics /\ ParkedBuckets
    /\ ParkedSegments
    /\ ParkedInputs
    /\ ParkedPeaks
    /\ ParkedPath
    /\ ParkedSeason
    /\ ParkedBias

----------------------------------------------------------------------------
(* Nullable values *)

Null == <<>>
Some(v) == <<v>>
IsNull(x) == x = <<>>
NotNull(x) == x # <<>>
Val(x) == x[1]

(* Generic helpers over finite sets and sequences of integers *)

Max2(a, b) == IF a >= b THEN a ELSE b
Min2(a, b) == IF a <= b THEN a ELSE b
SetMax(S) == CHOOSE x \in S : \A y \in S : y <= x
SetMin(S) == CHOOSE x \in S : \A y \in S : x <= y
Range(s) == {s[i] : i \in 1..Len(s)}

RECURSIVE SumSeq(_)
SumSeq(s) == IF s = <<>> THEN 0 ELSE s[1] + SumSeq(Tail(s))

RECURSIVE SortInts(_)
\* ascending sort of a sequence of integers (selection of the minimum)
SortInts(s) ==
    IF s = <<>> THEN <<>>
    ELSE LET i == CHOOSE j \in 1..Len(s) : \A k \in 1..Len(s) : s[j] <= s[k]
         IN  <<s[i]>> \o SortInts(SubSeq(s, 1, i - 1) \o SubSeq(s, i + 1, Len(s)))

\* np.inf: Some(Inf) and Some(-Inf) are the infinite floats, larger in size
\* than any number the model computes
Inf == 1000000

\* twice the pandas median of a sequence of numbers (the sum of the two middle
\* values), Null for an empty sequence: exact in integers
Median2(s) ==
    LET t == SortInts(s)
        n == Len(t)
    IN  IF n = 0 THEN Null
        ELSE Some(t[(n + 1) \div 2] + t[(n + 2) \div 2])

\* pandas Series.median() of the non-null values.  Where the model stores a
\* median (baseline_players), its metric values are even, so halving is exact.
Median(s) == IF IsNull(Median2(s)) THEN Null ELSE Some(Val(Median2(s)) \div 2)

----------------------------------------------------------------------------
(* Calendar: datetime.date as ordinals *)

IsLeap(y) == (y % 4 = 0) /\ ((y % 100 # 0) \/ (y % 400 = 0))
DaysBeforeYear(y) == 365 * (y - 1) + ((y - 1) \div 4) - ((y - 1) \div 100) + ((y - 1) \div 400)
DaysInMonth(y, m) ==
    IF m = 2 THEN (IF IsLeap(y) THEN 29 ELSE 28)
    ELSE IF m \in {4, 6, 9, 11} THEN 30 ELSE 31
RECURSIVE DaysBeforeMonth(_, _)
DaysBeforeMonth(y, m) == IF m = 1 THEN 0 ELSE DaysBeforeMonth(y, m - 1) + DaysInMonth(y, m - 1)
\* date(y, m, d).toordinal()
Date(y, m, d) == DaysBeforeYear(y) + DaysBeforeMonth(y, m) + d
\* date.fromordinal(o).year
YearOf(o) == CHOOSE y \in 1990..2060 : DaysBeforeYear(y) < o /\ o <= DaysBeforeYear(y + 1)

----------------------------------------------------------------------------
(* src/src/sales.py *)

\* SEASONAL_WINDOWS: <<start month, start day, end month, end day>>
SEASONAL_WINDOWS ==
    << <<3, 15, 3, 31>>, <<6, 15, 7, 15>>, <<11, 15, 11, 30>>, <<12, 15, 1, 10>> >>

\* variant of SeasonalOverlap: the year before the start is not examined
SeasonalOverlap_FromStartYear(start, end) ==
    LET years == {YearOf(start), YearOf(end)}
    IN  \E year \in years : \E i \in 1..Len(SEASONAL_WINDOWS) :
            LET w == SEASONAL_WINDOWS[i]
                window_start == Date(year, w[1], w[2])
                end_year == IF (w[3] > w[1]) \/ (w[3] = w[1] /\ w[4] >= w[2])
                            THEN year ELSE year + 1
                window_end == Date(end_year, w[3], w[4])
            IN  start <= window_end /\ end >= window_start

\* _seasonal_overlap(start, end) on ordinals
SeasonalOverlap(start, end) ==
    LET years == {YearOf(start) - 1, YearOf(start), YearOf(end)}
    IN  \E year \in years : \E i \in 1..Len(SEASONAL_WINDOWS) :
            LET w == SEASONAL_WINDOWS[i]
                window_start == Date(year, w[1], w[2])
                end_year == IF (w[3] > w[1]) \/ (w[3] = w[1] /\ w[4] >= w[2])
                            THEN year ELSE year + 1
                window_end == Date(end_year, w[3], w[4])
            IN  start <= window_end /\ end >= window_start

\* data["is_sale_day"] = data["discount_pct"].fillna(0) > 0
Fillna(x, d) == IF IsNull(x) THEN d ELSE Val(x)
IsSaleDay(row) == Fillna(row.discount_pct, 0) > 0

RECURSIVE SortByDate(_)
\* DataFrame.sort_values("date"): the rows of a frame in ascending date order
SortByDate(rows) ==
    IF rows = {} THEN <<>>
    ELSE LET r == CHOOSE x \in rows : \A y \in rows : x.date <= y.date
         IN  <<r>> \o SortByDate(rows \ {r})

\* _mode: values.value_counts().idxmax() over the non-null discounts of an
\* episode's days (days in date order); ties go to the value seen first
Mode(days) ==
    LET vals == {Val(days[i].discount_pct) : i \in {j \in 1..Len(days) : NotNull(days[j].discount_pct)}}
        Cnt(v) == Cardinality({i \in 1..Len(days) : days[i].discount_pct = Some(v)})
        First(v) == SetMin({i \in 1..Len(days) : days[i].discount_pct = Some(v)})
    IN  IF vals = {} THEN Null
        ELSE Some(CHOOSE v \in vals : \A u \in vals :
                    Cnt(v) > Cnt(u) \/ (Cnt(v) = Cnt(u) /\ First(v) <= First(u)))

\* sales.py:79 sale_days["date"].diff().dt.days
DateDiff(sale_days, i) == IF i = 1 THEN Null ELSE Some(sale_days[i].date - sale_days[i - 1].date)

\* variant of OpensEpisode: a gap of one missing day does not open an episode
OpensEpisode_Gap2(sale_days, i) ==
    LET date_diff == DateDiff(sale_days, i)
    IN  IsNull(date_diff) \/ Val(date_diff) > 2

\* sales.py:80 a row opens an episode when its date_diff is NaN or > 1
OpensEpisode(sale_days, i) ==
    LET date_diff == DateDiff(sale_days, i)
    IN  IsNull(date_diff) \/ Val(date_diff) > 1

\* every sale day numbered as an episode of its own
EpisodeId_PerDay(sale_days, i) == i

\* sales.py:80 (...).cumsum()
EpisodeId(sale_days, i) == Cardinality({j \in 1..i : OpensEpisode(sale_days, j)})

\* _build_sale_episodes(app_df): the episodes of one product, in episode_id order
BuildSaleEpisodes(app_df) ==
    LET sale_days == SortByDate({r \in app_df : IsSaleDay(r)})
        n == Len(sale_days)
        Members(e) == {i \in 1..n : EpisodeId(sale_days, i) = e}
        Days(e) == SubSeq(sale_days, SetMin(Members(e)), SetMax(Members(e)))
    IN  IF n = 0 THEN <<>>
        ELSE [e \in 1..EpisodeId(sale_days, n) |->
                [sale_start_date    |-> SetMin({sale_days[i].date : i \in Members(e)}),
                 sale_end_date      |-> SetMax({sale_days[i].date : i \in Members(e)}),
                 sale_duration_days |-> Cardinality(Members(e)),
                 sale_depth_max     |-> SetMax({Val(sale_days[i].discount_pct) : i \in Members(e)}),
                 sale_depth_mode    |-> Mode(Days(e))]]

\* sales.py:145-153 the baseline window of an episode starting at start
BaselineSlice(app_df, start, cfg) ==
    LET baseline_start == start - cfg.baseline_pre_days
        baseline_end == start - cfg.baseline_exclude_days
    IN  {r \in app_df : r.date >= baseline_start /\ r.date <= baseline_end}

\* baseline_slice[player_metric].dropna(), in date order
MetricValues(rows) ==
    LET s == SortByDate({r \in rows : NotNull(r.players_avg)})
    IN  [i \in 1..Len(s) |-> Val(s[i].players_avg)]

\* sales.py:153 baseline_slice[player_metric].dropna().shape[0]
BaselineDays(app_df, start, cfg) == Len(MetricValues(BaselineSlice(app_df, start, cfg)))

\* sales.py:155 the hard-coded minimum number of baseline observations
MIN_BASELINE_DAYS == 7

\* variant of IsExcluded: an episode with exactly 7 observations is dropped too
IsExcluded_AtMost(app_df, ep, cfg) == BaselineDays(app_df, ep.sale_start_date, cfg) <= MIN_BASELINE_DAYS

\* sales.py:155 if baseline_days < 7: excluded += 1; continue
IsExcluded(app_df, ep, cfg) == BaselineDays(app_df, ep.sale_start_date, cfg) < MIN_BASELINE_DAYS

\* sales.py:159-170 the record appended for a retained episode
SaleRecord(app_id, app_df, ep, cfg) ==
    [sale_id            |-> <<app_id, ep.sale_start_date>>,
     app_id             |-> app_id,
     sale_start_date    |-> ep.sale_start_date,
     sale_end_date      |-> ep.sale_end_date,
     sale_duration_days |-> (ep.sale_end_date - ep.sale_start_date) + 1,
     sale_depth_max     |-> ep.sale_depth_max,
     sale_depth_mode    |-> ep.sale_depth_mode,
     baseline_players   |-> Median(MetricValues(BaselineSlice(app_df, ep.sale_start_date, cfg)))]

RECURSIVE EpisodeLoop(_, _, _, _, _)
\* sales.py:143-170 the inner loop over one product's episodes; acc carries
\* the results list and the excluded counter
EpisodeLoop(app_id, app_df, episodes, cfg, acc) ==
    IF episodes = <<>> THEN acc
    ELSE EpisodeLoop(app_id, app_df, Tail(episodes), cfg,
            IF IsExcluded(app_df, Head(episodes), cfg)
            THEN [results |-> acc.results, excluded |-> acc.excluded + 1]
            ELSE [results |-> Append(acc.results, SaleRecord(app_id, app_df, Head(episodes), cfg)),
                  excluded |-> acc.excluded])

AppDf(data, app_id) == {r \in data : r.app_id = app_id}
AppIds(data) == {r.app_id : r \in data}

RECURSIVE AppLoop(_, _, _, _)
\* sales.py:130-170 the loop over data.groupby("app_id"), keys ascending
AppLoop(data, apps, cfg, acc) ==
    IF apps = {} THEN acc
    ELSE LET a == SetMin(apps)
         IN  AppLoop(data, apps \ {a}, cfg,
                     EpisodeLoop(a, AppDf(data, a), BuildSaleEpisodes(AppDf(data, a)), cfg, acc))

\* variant of CadenceCache: one list of sale days for all the products
CadenceCache_Shared(data) ==
    [a \in {x \in AppIds(data) : BuildSaleEpisodes(AppDf(data, x)) # <<>>} |->
        [episodes  |-> BuildSaleEpisodes(AppDf(data, a)),
         sale_days |-> {r.date : r \in {x \in data : IsSaleDay(x)}}]]

\* sales.py:138-141 cadence_cache: only products with at least one episode
CadenceCache(data) ==
    [a \in {x \in AppIds(data) : BuildSaleEpisodes(AppDf(data, x)) # <<>>} |->
        [episodes  |-> BuildSaleEpisodes(AppDf(data, a)),
         sale_days |-> {r.date : r \in {x \in AppDf(data, a) : IsSaleDay(x)}}]]

\* variant of SaleBefore: start dates in descending order
SaleBefore_Descending(x, y) ==
    x.app_id < y.app_id \/ (x.app_id = y.app_id /\ x.sale_start_date >= y.sale_start_date)

\* sort key of sales.py:176
SaleBefore(x, y) ==
    x.app_id < y.app_id \/ (x.app_id = y.app_id /\ x.sale_start_date <= y.sale_start_date)

RECURSIVE SortSales(_)
\* sales.sort_values(["app_id", "sale_start_date"]).reset_index(drop=True)
SortSales(s) ==
    IF s = <<>> THEN <<>>
    ELSE LET i == CHOOSE j \in 1..Len(s) : \A k \in 1..Len(s) : SaleBefore(s[j], s[k])
         IN  <<s[i]>> \o SortSales(SubSeq(s, 1, i - 1) \o SubSeq(s, i + 1, Len(s)))

\* sales.py:177-186 days from the end of the product's previous returned sale
DaysSinceLastSale(s, idx) ==
    LET prev == {j \in 1..Len(s) : s[j].app_id = s[idx].app_id
                                   /\ s[j].sale_start_date < s[idx].sale_start_date}
    IN  IF prev = {} THEN Null
        ELSE LET p == CHOOSE j \in prev : \A k \in prev : s[k].sale_start_date <= s[j].sale_start_date
             IN  Some(s[idx].sale_start_date - s[p].sale_end_date)

\* variant of Cadence: the window ends on the start date itself
Cadence_ThroughStart(row, cache, cfg) ==
    LET window_start == row.sale_start_date - cfg.cadence_lookback_days
        window_end == row.sale_start_date
        overlap == {e \in DOMAIN cache.episodes :
                        cache.episodes[e].sale_start_date <= window_end
                        /\ cache.episodes[e].sale_end_date >= window_start}
        sale_days_count == Cardinality({d \in cache.sale_days : window_start <= d /\ d <= window_end})
    IN  [sales_count_last_90d |-> Cardinality(overlap),
         sale_days_last_90d   |-> sale_days_count,
         sale_share_last_90d  |-> <<sale_days_count, cfg.cadence_lookback_days>>]

\* sales.py:192-210 cadence features of one record from the product's cache entry
Cadence(row, cache, cfg) ==
    LET window_start == row.sale_start_date - cfg.cadence_lookback_days
        window_end == row.sale_start_date - 1
        overlap == {e \in DOMAIN cache.episodes :
                        cache.episodes[e].sale_start_date <= window_end
                        /\ cache.episodes[e].sale_end_date >= window_start}
        sale_days_count == Cardinality({d \in cache.sale_days : window_start <= d /\ d <= window_end})
    IN  [sales_count_last_90d |-> Cardinality(overlap),
         sale_days_last_90d   |-> sale_days_count,
         sale_share_last_90d  |-> <<sale_days_count, cfg.cadence_lookback_days>>]

\* add_mechanism_tags: the two tags of one record
MechanismTags(row, cfg) ==
    [wishlist_notify_eligible |-> row.sale_depth_max >= cfg.wishlist_notify_discount_pct,
     seasonal_overlap         |-> SeasonalOverlap(row.sale_start_date, row.sale_end_date)]

\* sales.py:172-213 everything detect_sales does to the list of results
Annotate(results, cache, cfg) ==
    LET s == SortSales(results)
    IN  [i \in 1..Len(s) |->
            LET c == Cadence(s[i], cache[s[i].app_id], cfg)
                t == MechanismTags(s[i], cfg)
            IN  [sale_id |-> s[i].sale_id, app_id |-> s[i].app_id,
                 sale_start_date |-> s[i].sale_start_date,
                 sale_end_date |-> s[i].sale_end_date,
                 sale_duration_days |-> s[i].sale_duration_days,
                 sale_depth_max |-> s[i].sale_depth_max,
                 sale_depth_mode |-> s[i].sale_depth_mode,
                 baseline_players |-> s[i].baseline_players,
                 days_since_last_sale |-> DaysSinceLastSale(s, i),
                 sales_count_last_90d |-> c.sales_count_last_90d,
                 sale_days_last_90d |-> c.sale_days_last_90d,
                 sale_share_last_90d |-> c.sale_share_last_90d,
                 wishlist_notify_eligible |-> t.wishlist_notify_eligible,
                 seasonal_overlap |-> t.seasonal_overlap]]

\* F applied to the value of v, which is computed once
Bind(v, F(_)) == CHOOSE r \in {F(x) : x \in {v}} : TRUE

\* sales.py:96-213 detect_sales(data, cfg) as a whole: the error of the
\* all-null discount_pct check, or the sales frame, info and the cache built
DetectSalesRun(data, cfg) ==
    IF \A r \in data : IsNull(r.discount_pct)
    THEN [raised |-> TRUE, cadence_cache |-> <<>>, sales |-> <<>>, excluded |-> 0]
    ELSE Bind(AppLoop(data, AppIds(data), cfg, [results |-> <<>>, excluded |-> 0]),
              LAMBDA run :
                Bind(CadenceCache(data),
                     LAMBDA cache :
                        [raised |-> FALSE, cadence_cache |-> cache,
                         sales |-> IF run.results = <<>> THEN <<>>
                                   ELSE Annotate(run.results, cache, cfg),
                         excluded |-> run.excluded]))

----------------------------------------------------------------------------
(* src/src/metrics.py *)

\* Ratios are kept in hundredths (1.2 is 120) and percentages in whole points.
\* The baselines of the model divide 100 * players, so the division is exact.
\* A float division by zero gives an infinity, and NaN for 0 / 0.
\* compute_lift_ratio(players, baseline) = players / baseline
ComputeLiftRatio(players, baseline) ==
    IF IsNull(players) \/ IsNull(baseline) THEN Null
    ELSE IF Val(baseline) = 0
    THEN (IF Val(players) = 0 THEN Null
          ELSE IF Val(players) > 0 THEN Some(Inf) ELSE Some(-Inf))
    ELSE Some((100 * Val(players)) \div Val(baseline))

\* variant of LiftPctOfRatio: the ratio itself, as a percentage
LiftPctOfRatio_NoOffset(lift_ratio) ==
    IF IsNull(lift_ratio) THEN Null ELSE Some(Val(lift_ratio))

\* metrics.py:17, 68 (lift_ratio - 1) * 100
LiftPctOfRatio(lift_ratio) ==
    IF IsNull(lift_ratio) THEN Null
    ELSE IF Val(lift_ratio) \in {Inf, -Inf} THEN lift_ratio
    ELSE Some(Val(lift_ratio) - 100)

\* compute_lift_pct(players, baseline)
ComputeLiftPct(players, baseline) == LiftPctOfRatio(ComputeLiftRatio(players, baseline))

\* variant of PanelMetric: a date without a panel row counts as no players
PanelMetric_FillZero(pnl, app_id, date) ==
    LET hit == {r \in pnl : r.app_id = app_id /\ r.date = date}
    IN  IF hit = {} THEN Some(0) ELSE (CHOOSE r \in hit : TRUE).players_avg

\* metrics.py:63-65 the left merge: the metric of (app_id, date), null if the
\* panel has no such row (one row per product and date)
PanelMetric(pnl, app_id, date) ==
    LET hit == {r \in pnl : r.app_id = app_id /\ r.date = date}
    IN  IF hit = {} THEN Null ELSE (CHOOSE r \in hit : TRUE).players_avg

\* metrics.py:45-71 the event-window row of one sale at offset k
EventRow(pnl, sale, k) ==
    LET event_date == sale.sale_start_date + k
        players == PanelMetric(pnl, sale.app_id, event_date)
        lift_ratio == ComputeLiftRatio(players, sale.baseline_players)
    IN  [sale_id |-> sale.sale_id, app_id |-> sale.app_id, k |-> k, date |-> event_date,
         players |-> players, baseline_players |-> sale.baseline_players,
         lift_ratio |-> lift_ratio, lift_pct |-> LiftPctOfRatio(lift_ratio),
         in_sale |-> (event_date >= sale.sale_start_date /\ event_date <= sale.sale_end_date),
         sale_start_date |-> sale.sale_start_date, sale_end_date |-> sale.sale_end_date]

RECURSIVE BuildEventWindow(_, _, _)
\* build_event_window(panel, sales, config): rows in sale order, k ascending
BuildEventWindow(pnl, sls, cfg) ==
    IF sls = <<>> THEN <<>>
    ELSE LET pre == cfg.event_window_pre_days
             post == cfg.event_window_post_days
         IN  [i \in 1..(pre + post + 1) |-> EventRow(pnl, Head(sls), i - 1 - pre)]
             \o BuildEventWindow(pnl, Tail(sls), cfg)

RECURSIVE SelectSeq2(_, _)
\* the subsequence of the rows of a frame that satisfy a row filter
SelectSeq2(s, keep) ==
    IF s = <<>> THEN <<>>
    ELSE (IF keep[1] THEN <<Head(s)>> ELSE <<>>)
         \o SelectSeq2(Tail(s), Tail(keep))

\* variant of ClippedExcess: no clamp, a day below baseline offsets the others
ClippedExcess_NoClip(lift_ratio) == IF IsNull(lift_ratio) THEN 0 ELSE Val(lift_ratio) - 100

\* metrics.py:91-93 one in-sale row's term of the sum: (lift_ratio - 1).clip(lower=0);
\* a NaN stays NaN and Series.sum() skips it
ClippedExcess(lift_ratio) == IF IsNull(lift_ratio) THEN 0 ELSE Max2(Val(lift_ratio) - 100, 0)

\* compute_aul(event_window), in hundredths; NaN (Null) for an empty frame
ComputeAul(ew) ==
    IF ew = <<>> THEN Null
    ELSE LET values == SelectSeq2(ew, [i \in 1..Len(ew) |-> ew[i].in_sale])
         IN  Some(SumSeq([i \in 1..Len(values) |-> ClippedExcess(values[i].lift_ratio)]))

\* metrics.py:113-115 the product's panel rows dated end+1 .. end+decay_window
DecaySubset(sale_row, pnl, cfg) ==
    LET start_date == sale_row.sale_end_date + 1
        end_date == sale_row.sale_end_date + cfg.decay_window_days
    IN  {r \in pnl : r.app_id = sale_row.app_id /\ r.date >= start_date /\ r.date <= end_date}

\* metrics.py:122 series.rolling(window=roll, min_periods=1).median() at row
\* idx, doubled: the median of the non-null values among the last roll rows
Rolling2(rows, idx, roll) ==
    LET lo == Max2(1, idx - roll + 1)
        win == SelectSeq2(SubSeq(rows, lo, idx), [i \in 1..(idx - lo + 1) |-> NotNull(rows[lo + i - 1].players_avg)])
    IN  Median2([i \in 1..Len(win) |-> Val(win[i].players_avg)])

\* variant of MeetsThreshold: the tolerance is ignored
MeetsThreshold_NoTolerance(rolling2, baseline, cfg) ==
    NotNull(rolling2) /\ Val(rolling2) <= 2 * baseline

\* metrics.py:124-126 pd.notna(value) and value <= baseline * (1 + tolerance),
\* with the rolling value doubled and the tolerance in percent
MeetsThreshold(rolling2, baseline, cfg) ==
    NotNull(rolling2) /\ 100 * Val(rolling2) <= 2 * baseline * (100 + cfg.decay_tolerance)

\* compute_decay_days_to_baseline(sale_row, panel, config, player_metric)
ComputeDecayDaysToBaseline(sale_row, pnl, cfg) ==
    IF IsNull(sale_row.baseline_players) THEN Null
    ELSE LET subset == DecaySubset(sale_row, pnl, cfg)
             rows == SortByDate(subset)
             hits == {idx \in 1..Len(rows) :
                        MeetsThreshold(Rolling2(rows, idx, cfg.decay_roll_days),
                                       Val(sale_row.baseline_players), cfg)}
         IN  IF subset = {} THEN Null
             ELSE IF hits = {} THEN Null
             ELSE Some(rows[SetMin(hits)].date - sale_row.sale_end_date)

\* metrics.py:160-161 max of lift_pct over the sale's rows with
\* 0 <= k <= peak_window_days; NaN when none is non-null
PeakLift(group, cfg) ==
    LET vals == {Val(group[i].lift_pct) : i \in {j \in 1..Len(group) :
                    /\ group[j].k >= 0 /\ group[j].k <= cfg.peak_window_days
                    /\ NotNull(group[j].lift_pct)}}
    IN  IF vals = {} THEN Null ELSE Some(SetMax(vals))

\* the names pandas gives two same-named columns of a merge
SuffixX(c) == IF c = "peak_lift_pct" THEN "peak_lift_pct_x" ELSE "AUL_x"
SuffixY(c) == IF c = "peak_lift_pct" THEN "peak_lift_pct_y" ELSE "AUL_y"

\* col.startswith("peak_lift_pct_") or col.startswith("AUL_"), over the column
\* names that occur
HasMetricPrefix(c) == c \in {"peak_lift_pct_x", "peak_lift_pct_y", "AUL_x", "AUL_y"}

\* variant of DropCols: stale metric columns are kept
DropCols_Nothing(cols) == {}

\* metrics.py:148-152 drop_cols
DropCols(cols) == {c \in cols : c \in {"peak_lift_pct", "AUL"} \/ HasMetricPrefix(c)}

\* a row without the columns in drop
DropFromRow(row, drop) == [c \in (DOMAIN row) \ drop |-> row[c]]

\* one column of a left merge: a name both frames have is suffixed _x / _y
MergeCol(row, c, v) ==
    IF c \in DOMAIN row
    THEN DropFromRow(row, {c}) @@ (SuffixX(c) :> row[c]) @@ (SuffixY(c) :> v)
    ELSE row @@ (c :> v)

\* merged["decay_days_to_baseline"] = decay_values: assignment replaces or adds
SetCol(row, c, v) == [x \in (DOMAIN row) \cup {c} |-> IF x = c THEN v ELSE row[x]]

\* metrics.py:159-162 the rows of event_window with this sale_id, in order
EventGroup(ew, sale_id) ==
    SelectSeq2(ew, [i \in 1..Len(ew) |-> ew[i].sale_id = sale_id])

\* add_sale_metrics(sales, event_window, panel, config) for a non-empty
\* event window (an empty one has no sale_id column: KeyError)
AddSaleMetrics(sls, ew, pnl, cfg) ==
    IF sls = <<>> THEN sls
    ELSE LET ids == {ew[i].sale_id : i \in 1..Len(ew)}
             Metric(id, c) ==
                IF id \notin ids THEN Null
                ELSE IF c = "peak_lift_pct" THEN PeakLift(EventGroup(ew, id), cfg)
                ELSE ComputeAul(EventGroup(ew, id))
             Kept(i) == DropFromRow(sls[i], DropCols(DOMAIN sls[i]))
             Merged(i) == MergeCol(MergeCol(Kept(i), "peak_lift_pct", Metric(sls[i].sale_id, "peak_lift_pct")),
                                   "AUL", Metric(sls[i].sale_id, "AUL"))
         IN  [i \in 1..Len(sls) |->
                SetCol(Merged(i), "decay_days_to_baseline",
                       ComputeDecayDaysToBaseline(Merged(i), pnl, cfg))]

\* add_buckets --------------------------------------------------------------
\* A raw sale_depth_max cell is Null (missing) or Some([num, val]): a number
\* val when num, anything pd.to_numeric cannot parse otherwise.

\* pd.to_numeric(..., errors="coerce"): unparseable cells become NaN
ToNumeric(cell) ==
    IF IsNull(cell) THEN Null
    ELSE IF Val(cell).num THEN Some(Val(cell).val) ELSE Null

\* the depth with the clip left out
ClipDepth_NoClip(x) == x

\* .clip(lower=0, upper=100); NaN stays NaN
ClipDepth(x) == IF IsNull(x) THEN Null ELSE Some(Min2(Max2(Val(x), 0), 100))

\* tiers = sorted(t * 100 if t <= 1 else t): the configuration holds each tier
\* in hundredths (0.10 is 10, a percent-style 25 is 2500), the result is in
\* percent.  The configurations used keep every tier a whole percent.
TierPercent(t) == IF t <= 100 THEN t ELSE t \div 100
Tiers(cfg) ==
    SortInts([i \in 1..Len(cfg.discount_tiers) |-> TierPercent(cfg.discount_tiers[i])])

\* bins = [0, tiers[0], tiers[1], tiers[2], tiers[3], 100]
Bins(cfg) == <<0, Tiers(cfg)[1], Tiers(cfg)[2], Tiers(cfg)[3], Tiers(cfg)[4], 100>>

\* the five f-string labels built from the bins
TierLabels(cfg) ==
    LET bins == Bins(cfg)
    IN  [i \in 1..5 |->
            IF i = 1 THEN "0-" \o ToString(bins[2]) \o "%"
            ELSE ToString(bins[i] + 1) \o "-" \o ToString(bins[i + 1]) \o "%"]

\* pd.cut(x, bins, labels, include_lowest=True): right-closed intervals, the
\* first one also closed on the left; NaN for NaN and for values outside
Cut(x, bins, labels) ==
    IF IsNull(x) THEN Null
    ELSE LET hits == {i \in 1..(Len(bins) - 1) :
                         \/ bins[i] < Val(x) /\ Val(x) <= bins[i + 1]
                         \/ i = 1 /\ Val(x) = bins[1]}
         IN  IF hits = {} THEN Null ELSE Some(labels[CHOOSE i \in hits : TRUE])

\* .astype("object").where(notna, "Unknown")
FillUnknown(label) == IF IsNull(label) THEN Some("Unknown") ELSE label

\* the non-null values of a column, in row order
NotNa(col) == SelectSeq(col, NotNull)

\* pd.qcut's bin edges, each multiplied by q: the i/q quantiles (i = 0..q) of
\* the sorted non-null values s under linear interpolation
QuantileEdge(s, q, i) ==
    LET pos == (Len(s) - 1) * i
        lo == pos \div q
        fr == pos % q
    IN  IF fr = 0 THEN s[lo + 1] * q ELSE s[lo + 1] * (q - fr) + s[lo + 2] * fr

\* pd.qcut(col, q, labels, duplicates="drop") inside try/except ValueError:
\* duplicate edges are dropped, and then the labels no longer number one fewer
\* than the edges, which raises ValueError: the whole column becomes pd.NA.
\* Otherwise each non-null value gets the label of its right-closed interval,
\* the lowest edge included.
Qcut(col, q, labels) ==
    LET s == SortInts([i \in 1..Len(NotNa(col)) |-> Val(NotNa(col)[i])])
        edges == [i \in 1..(q + 1) |-> QuantileEdge(s, q, i - 1)]
        unique == Range(edges)
        n_bins == IF Cardinality(unique) < q + 1 /\ q + 1 # 2 THEN Cardinality(unique) ELSE q + 1
        binOf(v) == CHOOSE i \in 1..q : \/ edges[i] < v * q /\ v * q <= edges[i + 1]
                                        \/ i = 1 /\ v * q = edges[1]
    IN  IF Len(labels) # n_bins - 1 THEN [i \in 1..Len(col) |-> Null]
        ELSE [i \in 1..Len(col) |-> IF IsNull(col[i]) THEN Null ELSE Some(labels[binOf(Val(col[i]))])]

\* the popularity_bucket / cadence_bucket block: qcut when the column has at
\* least one non-null value, pd.NA for every row otherwise
QuantileBucket(col, q, labels) ==
    IF Len(NotNa(col)) > 0 THEN Qcut(col, q, labels) ELSE [i \in 1..Len(col) |-> Null]

PopularityLabels(q) == [i \in 1..q |-> "Q" \o ToString(i)]
CadenceLabels == <<"low", "mid", "high">>

Column(rows, c) == [i \in 1..Len(rows) |-> rows[i][c]]

\* add_buckets(sales, config): a copy of the frame with sale_depth_max made
\* numeric and clipped, and the three bucket columns added
AddBuckets(sls, cfg) ==
    LET depth == [i \in 1..Len(sls) |-> ClipDepth(ToNumeric(sls[i].sale_depth_max))]
        popularity == QuantileBucket(Column(sls, "baseline_players"), cfg.popularity_quantiles,
                                     PopularityLabels(cfg.popularity_quantiles))
        cadence == QuantileBucket(Column(sls, "sale_share_last_90d"), 3, CadenceLabels)
    IN  [i \in 1..Len(sls) |->
            [sale_id |-> sls[i].sale_id,
             sale_depth_max |-> depth[i],
             baseline_players |-> sls[i].baseline_players,
             sale_share_last_90d |-> sls[i].sale_share_last_90d,
             peak_lift_pct |-> sls[i].peak_lift_pct,
             discount_tier_bucket |-> FillUnknown(Cut(depth[i], Bins(cfg), TierLabels(cfg))),
             popularity_bucket |-> popularity[i],
             cadence_bucket |-> cadence[i]]]

\* build_playbook_table -----------------------------------------------------

\* groupby([...], dropna=True, observed=True): the key triples that occur in
\* rows none of whose three keys is missing
GroupKeys(rows) ==
    {<<rows[i].discount_tier_bucket, rows[i].popularity_bucket, rows[i].cadence_bucket>> :
        i \in {j \in 1..Len(rows) : /\ NotNull(rows[j].discount_tier_bucket)
                                    /\ NotNull(rows[j].popularity_bucket)
                                    /\ NotNull(rows[j].cadence_bucket)}}

GroupRows(rows, key) ==
    SelectSeq2(rows, [i \in 1..Len(rows) |->
        <<rows[i].discount_tier_bucket, rows[i].popularity_bucket, rows[i].cadence_bucket>> = key])

\* the filter keeping groups of two or more sales only
Surfaced_AtLeastTwo(row) == row.n_sales > 1

\* table[table["n_sales"] > 0]
Surfaced(row) == row.n_sales > 0

\* one table row per group: n_sales counts the non-null sale_id, the median
\* of peak_lift_pct is kept doubled.  (The other aggregates are further medians
\* and quantiles of the group's metric columns; they do not decide which rows
\* the table has.)
PlaybookRow(rows, key) ==
    LET g == GroupRows(rows, key)
        lifts == NotNa(Column(g, "peak_lift_pct"))
    IN  [discount_tier_bucket |-> Val(key[1]),
         popularity_bucket |-> Val(key[2]),
         cadence_bucket |-> Val(key[3]),
         n_sales |-> Len(NotNa(Column(g, "sale_id"))),
         median_peak_lift_pct2 |-> Median2([i \in 1..Len(lifts) |-> Val(lifts[i])])]

\* build_playbook_table(sales): an empty frame is returned as it is
BuildPlaybookTable(rows) ==
    IF rows = <<>> THEN {}
    ELSE {r \in {PlaybookRow(rows, key) : key \in GroupKeys(rows)} : Surfaced(r)}

----------------------------------------------------------------------------
(* src/scripts/build_tail_validation.py *)

\* compute_baseline: per sale the median of the metric over the event rows
\* with -14 <= k <= -1 (doubled), NaN when none is observed
ComputeBaseline2(g) ==
    LET pre == SelectSeq2(g, [i \in 1..Len(g) |-> g[i].k >= -14 /\ g[i].k <= -1 /\ NotNull(g[i].players)])
    IN  Median2([i \in 1..Len(pre) |-> Val(pre[i].players)])

\* compute_decay._decay_for_group on the event rows g of one sale (k ascending):
\* the first k in 0..14 whose metric is <= baseline_value, else 14, censored
DecayForGroup(g) ==
    LET baseline2 == ComputeBaseline2(g)
        decay_k == {g[i].k : i \in {j \in 1..Len(g) :
                        /\ g[j].k >= 0 /\ g[j].k <= 14
                        /\ NotNull(g[j].players) /\ NotNull(baseline2)
                        /\ 2 * Val(g[j].players) <= Val(baseline2)}}
    IN  IF decay_k = {} THEN [decay_day |-> 14, decay_censored |-> TRUE]
        ELSE [decay_day |-> SetMin(decay_k), decay_censored |-> FALSE]


\* compute_baseline / compute_peaks ---------------------------------------------
\* The event frame read by prep_data has the columns of build_event_window; the
\* playercount metric column is players.

\* build_tail_validation.py:104-108 compute_baseline for one sale_id: the median
\* of the metric over the rows with -14 <= k <= -1, NaN skipped; NaN when the
\* sale has no such value (the left merge of prep_data then gives NaN)
ComputeBaseline(event_df, sale_id) ==
    LET pre == SelectSeq2(event_df,
                   [i \in 1..Len(event_df) |->
                        /\ event_df[i].sale_id = sale_id
                        /\ event_df[i].k >= -14 /\ event_df[i].k <= -1
                        /\ NotNull(event_df[i].players)])
    IN  Median([i \in 1..Len(pre) |-> Val(pre[i].players)])

\* build_tail_validation.py:193-194 event_df.merge(baseline, on="sale_id", how="left")
WithBaseline(event_df) ==
    LET ids == {event_df[i].sale_id : i \in 1..Len(event_df)}
        baseline == [id \in ids |-> ComputeBaseline(event_df, id)]
    IN  [i \in 1..Len(event_df) |->
            [baseline_value |-> baseline[event_df[i].sale_id]] @@ event_df[i]]

\* build_tail_validation.py:171 post[metric_col] - post["baseline_value"]
AbsUplift(metric, base) ==
    IF IsNull(metric) \/ IsNull(base) THEN Null ELSE Some(Val(metric) - Val(base))

\* build_tail_validation.py:172-176 np.where(baseline_value >= baseline_floor,
\* 100 * (metric - baseline_value) / baseline_value, nan), in whole points
\* rounded down; a comparison with NaN is false, a division by zero gives an
\* infinity and 0 / 0 gives NaN
RowLiftPct(metric, base, baseline_floor) ==
    IF IsNull(base) THEN Null
    ELSE IF ~(Val(base) >= baseline_floor) THEN Null
    ELSE IF IsNull(metric) THEN Null
    ELSE IF Val(base) = 0
    THEN (IF Val(metric) = 0 THEN Null
          ELSE IF Val(metric) > 0 THEN Some(Inf) ELSE Some(-Inf))
    ELSE Some((100 * (Val(metric) - Val(base))) \div Val(base))

\* compute_peaks(event_df, metric_col, baseline_floor): the post frame it
\* builds and the frame it returns, one row per sale_id (max skips NaN)
ComputePeaks(event_df, baseline_floor) ==
    LET post == SelectSeq2(event_df,
                    [i \in 1..Len(event_df) |-> event_df[i].k >= 0 /\ event_df[i].k <= 6])
        rows == [i \in 1..Len(post) |->
                    [abs_uplift |-> AbsUplift(post[i].players, post[i].baseline_value),
                     lift_pct |-> RowLiftPct(post[i].players, post[i].baseline_value,
                                             baseline_floor)] @@ post[i]]
        ids == {rows[i].sale_id : i \in 1..Len(rows)}
        MaxOf(id, c) ==
            LET vals == {Val(rows[i][c]) :
                            i \in {j \in 1..Len(rows) : rows[j].sale_id = id /\ NotNull(rows[j][c])}}
            IN  IF vals = {} THEN Null ELSE Some(SetMax(vals))
    IN  [baseline_floor |-> baseline_floor,
         post |-> rows,
         returned |-> [id \in ids |-> [peak_abs_uplift |-> MaxOf(id, "abs_uplift"),
                                       peak_lift_pct |-> MaxOf(id, "lift_pct")]]]

\* assign_segments -------------------------------------------------------------
\* The baseline series has one entry per event row, so it comes in runs: it is
\* kept as a sequence of runs [value, n], n consecutive entries holding the
\* same value (Null is NaN, Some(Inf) and Some(-Inf) are the infinities).
\* Quantiles and ranks are computed in exact arithmetic; a label depends on
\* the value only, so a run carries one label.

SEGMENT_ORDER == <<"tail", "mid", "head">>
MIN_SEGMENT_N == 25
SMALL_SAMPLE_N == 200
\* quantile lists as fractions num[i] / den
TERCILES == [num |-> <<0, 1, 2, 3>>, den |-> 3]
QUANTILES_40_80 == [num |-> <<0, 2, 4, 5>>, den |-> 5]
QUANTILES_50_80 == [num |-> <<0, 5, 8, 10>>, den |-> 10]

\* baseline.notna().sum(): the infinities count as present
NEvents(baseline) ==
    SumSeq([i \in 1..Len(baseline) |-> IF NotNull(baseline[i].value) THEN baseline[i].n ELSE 0])

\* clean = baseline.replace([np.inf, -np.inf], np.nan)
Clean(baseline) ==
    [i \in 1..Len(baseline) |->
        IF NotNull(baseline[i].value) /\ Val(baseline[i].value) \in {Inf, -Inf}
        THEN [baseline[i] EXCEPT !.value = Null] ELSE baseline[i]]

CleanValues(clean) == {Val(clean[i].value) : i \in {j \in 1..Len(clean) : NotNull(clean[j].value)}}

RECURSIVE SortSet(_)
SortSet(S) == IF S = {} THEN <<>> ELSE <<SetMin(S)>> \o SortSet(S \ {SetMin(S)})

\* the non-null values in ascending order, each with the number of entries
\* that are at most it: the sorted series, run-length encoded
Tally(clean) ==
    LET sorted == SortSet(CleanValues(clean))
    IN  [value |-> sorted,
         upto |-> [k \in 1..Len(sorted) |->
                    SumSeq([i \in 1..Len(clean) |->
                        IF NotNull(clean[i].value) /\ Val(clean[i].value) <= sorted[k]
                        THEN clean[i].n ELSE 0])]]
Below(tally, k) == IF k = 1 THEN 0 ELSE tally.upto[k - 1]
Total(tally) == IF tally.value = <<>> THEN 0 ELSE tally.upto[Len(tally.upto)]

\* the entry at 0-based position idx of the sorted non-null values
SortedAt(tally, idx) ==
    tally.value[CHOOSE k \in 1..Len(tally.value) : Below(tally, k) <= idx /\ idx < tally.upto[k]]

\* the quantile q.num[i] / q.den of the non-null values under linear
\* interpolation, multiplied by q.den
QuantileOf(tally, q, i) ==
    LET pos == (Total(tally) - 1) * q.num[i]
        lo == pos \div q.den
        fr == pos % q.den
    IN  IF fr = 0 THEN SortedAt(tally, lo) * q.den
        ELSE SortedAt(tally, lo) * (q.den - fr) + SortedAt(tally, lo + 1) * fr

\* the four bin edges pd.qcut takes from the quantiles; none when there is no
\* value to take quantiles of
QcutEdges(tally, q) ==
    IF tally.value = <<>> THEN <<>> ELSE [i \in 1..4 |-> QuantileOf(tally, q, i)]

\* pd.qcut(clean, q=quantiles, labels=SEGMENT_ORDER, duplicates="drop") raises
\* when there is no value to take quantiles of, or when two edges coincide:
\* the duplicate is dropped and three labels no longer fit the bins
QcutRaises(edges) == Cardinality(Range(edges)) < 4

\* the label pd.qcut gives a value: its right-closed bin, the lowest edge included
QcutLabel(edges, q, v) ==
    SEGMENT_ORDER[CHOOSE i \in 1..3 :
                     \/ edges[i] < v * q.den /\ v * q.den <= edges[i + 1]
                     \/ i = 1 /\ v * q.den = edges[1]]

\* clean.rank(method="average", pct=True) of value v as the fraction
\* num / den: the mean of the ranks of its ties over the number of values
RankPct(tally, v) ==
    LET k == CHOOSE j \in 1..Len(tally.value) : tally.value[j] = v
    IN  [num |-> Below(tally, k) + tally.upto[k] + 1, den |-> 2 * Total(tally)]

\* pd.cut(pct, bins=quantiles, labels=SEGMENT_ORDER, include_lowest=True)
RankCutLabel(tally, q, v) ==
    LET pct == RankPct(tally, v)
        hits == {i \in 1..3 : \/ /\ q.num[i] * pct.den < pct.num * q.den
                                 /\ pct.num * q.den <= q.num[i + 1] * pct.den
                              \/ i = 1 /\ pct.num = 0}
    IN  IF hits = {} THEN "nan" ELSE SEGMENT_ORDER[CHOOSE i \in hits : TRUE]

\* the labels of the runs once the tally and the qcut edges are known
LabelRuns(clean, q, tally, edges, rank_binned) ==
    [i \in 1..Len(clean) |->
        IF IsNull(clean[i].value) THEN "nan"
        ELSE IF rank_binned THEN RankCutLabel(tally, q, Val(clean[i].value))
        ELSE IF QcutRaises(edges) THEN "nan"
        ELSE QcutLabel(edges, q, Val(clean[i].value))]

\* the cut with the except branch left out: a failing pd.qcut propagates
CutSegments_NoFallback(clean, q) ==
    Bind(Tally(clean), LAMBDA tally :
        Bind(QcutEdges(tally, q), LAMBDA edges :
            [raised |-> QcutRaises(edges),
             rank_binned |-> FALSE,
             segments |-> LabelRuns(clean, q, tally, edges, FALSE)]))

\* the try / except around pd.qcut: the label of every run ("nan" is the
\* missing label, as astype(str) prints it), whether the rank-based binning
\* was taken, and whether an exception leaves the block (pd.cut over fixed
\* increasing bins does not raise)
CutSegments(clean, q) ==
    Bind(Tally(clean), LAMBDA tally :
        Bind(QcutEdges(tally, q), LAMBDA edges :
            [raised |-> FALSE,
             rank_binned |-> QcutRaises(edges),
             segments |-> LabelRuns(clean, q, tally, edges, QcutRaises(edges))]))

\* segments.value_counts(dropna=True).min(): the segments are categorical, so
\* a label no entry carries counts 0
\* the smallest count taken over the segments that have members only
MinSegmentCount_Observed(clean, segments) ==
    SetMin({SumSeq([i \in 1..Len(clean) |->
                       IF segments[i] = SEGMENT_ORDER[c] THEN clean[i].n ELSE 0]) :
               c \in {d \in 1..3 : \E i \in 1..Len(clean) : segments[i] = SEGMENT_ORDER[d]}}
           \cup {SumSeq([i \in 1..Len(clean) |-> clean[i].n])})

MinSegmentCount(clean, segments) ==
    SetMin({SumSeq([i \in 1..Len(clean) |->
                       IF segments[i] = SEGMENT_ORDER[c] THEN clean[i].n ELSE 0]) : c \in 1..3})

NOTE_TERCILES == "Total events <200: used terciles (33/33/34)."
NOTE_WIDENED == "Segment count <25: widened tail to bottom 50%."
NOTE_INSUFFICIENT == "Insufficient sample size: at least one segment <25 even after widening tail."

\* lines 112-124: the first assignment
SmallSample(baseline) == NEvents(baseline) < SMALL_SAMPLE_N
FirstNotes(baseline, nts) == IF SmallSample(baseline) THEN Append(nts, NOTE_TERCILES) ELSE nts
FirstCut(baseline) ==
    CutSegments(Clean(baseline), IF SmallSample(baseline) THEN TERCILES ELSE QUANTILES_40_80)
\* lines 126-127: seg_counts.min() < MIN_SEGMENT_N
TooFew(baseline, segments) == MinSegmentCount(Clean(baseline), segments) < MIN_SEGMENT_N

\* the outcome when the first assignment stands
Unwidened(baseline, nts, first) ==
    [segments |-> first.segments,
     notes |-> FirstNotes(baseline, nts),
     rank_binned |-> <<first.rank_binned>>,
     raised |-> first.raised]

\* lines 128-137: the reassignment with the tail widened to the bottom half
Widened(baseline, nts, first) ==
    Bind(CutSegments(Clean(baseline), QUANTILES_50_80), LAMBDA second :
        [segments |-> second.segments,
         notes |-> IF TooFew(baseline, second.segments)
                   THEN Append(Append(FirstNotes(baseline, nts), NOTE_WIDENED), NOTE_INSUFFICIENT)
                   ELSE Append(FirstNotes(baseline, nts), NOTE_WIDENED),
         rank_binned |-> <<first.rank_binned, second.rank_binned>>,
         raised |-> first.raised \/ second.raised])

\* the widening skipped when the notes already record one
AssignSegments_WidenOnce(baseline, nts) ==
    Bind(FirstCut(baseline), LAMBDA first :
        IF TooFew(baseline, first.segments) /\ NOTE_WIDENED \notin Range(nts)
        THEN Widened(baseline, nts, first) ELSE Unwidened(baseline, nts, first))

\* assign_segments(baseline, notes): the label of every run, the notes list
\* after the call, which of the cuts performed took the rank-based binning,
\* and whether the call raised
AssignSegments(baseline, nts) ==
    Bind(FirstCut(baseline), LAMBDA first :
        IF TooFew(baseline, first.segments)
        THEN Widened(baseline, nts, first) ELSE Unwidened(baseline, nts, first))

DISCOUNT_TIER_ORDER == <<"0-10%", "11-25%", "26-50%", "51-75%", "76-100%">>
COLLAPSED_TIER_ORDER == <<"0-10%", "11-25%", "26-50%", "51%+">>
MIN_TIER_N == 10

\* counts = sub["discount_tier_bucket"].value_counts(): the labels that occur
\* among the rows of the segment, and how often each does
TiersOf(frame, seg) ==
    {frame[i].discount_tier_bucket : i \in {j \in 1..Len(frame) : frame[j].segment = seg}}
TierCount(frame, seg, tier) ==
    Cardinality({i \in 1..Len(frame) :
                    frame[i].segment = seg /\ frame[i].discount_tier_bucket = tier})

\* counts.min() >= MIN_TIER_N; the minimum of no counts is NaN, which is not >= 10
EveryTierLargeEnough(frame, seg) ==
    /\ TiersOf(frame, seg) # {}
    /\ \A tier \in TiersOf(frame, seg) : TierCount(frame, seg, tier) >= MIN_TIER_N

\* the relabelling mask without its segment condition
Relabelled_AnySegment(row, seg) == row.discount_tier_bucket \in {"51-75%", "76-100%"}

\* (df["segment"] == segment) & df["discount_tier_bucket"].isin(["51-75%", "76-100%"])
Relabelled(row, seg) ==
    row.segment = seg /\ row.discount_tier_bucket \in {"51-75%", "76-100%"}

CollapseNote(seg) ==
    "Collapsed tiers to '51%+' for segment '" \o seg \o "' due to low N (<"
        \o ToString(MIN_TIER_N) \o ")."

\* collapse_tiers_for_segment(df, segment, notes).  input is the caller's
\* frame object after the call: the function relabels a copy (df = df.copy()),
\* and returns the caller's own frame when nothing is collapsed.
CollapseTiersForSegment(frame, seg, nts) ==
    IF EveryTierLargeEnough(frame, seg)
    THEN [input |-> frame, frame |-> frame, tier_order |-> DISCOUNT_TIER_ORDER, notes |-> nts]
    ELSE [input |-> frame,
          frame |-> [i \in 1..Len(frame) |->
                        IF Relabelled(frame[i], seg)
                        THEN [frame[i] EXCEPT !.discount_tier_bucket = "51%+"]
                        ELSE frame[i]],
          tier_order |-> COLLAPSED_TIER_ORDER,
          notes |-> Append(nts, CollapseNote(seg))]

----------------------------------------------------------------------------
(* Required input columns.  A frame is seen through its columns: a function *)
(* from the names of the columns it has to their number of non-null cells.  *)
(* A message is the sequence of its fragments, the interpolated ones apart. *)

Raise(kind, message) == [error |-> Some([kind |-> kind, message |-> message]), result |-> Null]
Return(result) == [error |-> Null, result |-> Some(result)]

\* a missing metric replaced by another players column
RequireColumns_Substitute(cols, player_metric) ==
    IF player_metric \notin DOMAIN cols /\ "players_max" \in DOMAIN cols
    THEN Return([player_metric |-> "players_max"])
    ELSE Return([player_metric |-> player_metric])

\* sales.py:107-114 the checks detect_sales makes before it reads the panel;
\* the result names the metric column the run then reads
RequireColumns(cols, player_metric) ==
    IF player_metric \notin DOMAIN cols
    THEN Raise("ValueError", <<"Panel is missing player metric '", player_metric, "'">>)
    ELSE IF "discount_pct" \notin DOMAIN cols
    THEN Raise("ValueError",
               <<"Panel is missing ", "discount_pct", "; price data is required for sale detection">>)
    ELSE IF cols["discount_pct"] = 0
    THEN Raise("ValueError", <<"Price/discount data not found; sale detection requires price data">>)
    ELSE Return([player_metric |-> player_metric])

\* metrics.py:31-35 the check build_event_window makes (twice over)
RequireMetric(cols, player_metric) ==
    IF player_metric \notin DOMAIN cols
    THEN Raise("ValueError", <<"Panel is missing player metric '", player_metric, "'">>)
    ELSE IF player_metric \notin DOMAIN cols
    THEN Raise("ValueError", <<"Panel is missing player metric '", player_metric, "'">>)
    ELSE Return([player_metric |-> player_metric])

\* build_tail_validation.py:68-87 metric_config(metric, event_df): the metric
\* column, its label, its tag and the baseline floor, or SystemExit
MetricConfig(metric, cols) ==
    IF metric = "playercount"
    THEN IF "players" \notin DOMAIN cols
         THEN Raise("SystemExit", <<"ERROR: '", "players", "' column not found for playercount proxy.">>)
         ELSE Return([metric_col |-> "players", metric_label |-> "engagement proxy (playercount)",
                      metric_tag |-> "playercount", baseline_floor |-> 1])
    ELSE IF metric = "units"
    THEN IF "metric_daily_units" \notin DOMAIN cols
         THEN Raise("SystemExit", <<"ERROR: Required metric column '", "metric_daily_units",
                                    "' not found. ", "Provide units in the event dataset.">>)
         ELSE Return([metric_col |-> "metric_daily_units", metric_label |-> "units",
                      metric_tag |-> "units", baseline_floor |-> 0])
    ELSE IF metric = "revenue"
    THEN IF "metric_daily_revenue" \notin DOMAIN cols
         THEN Raise("SystemExit", <<"ERROR: Required metric column '", "metric_daily_revenue",
                                    "' not found. ", "Provide revenue in the event dataset.">>)
         ELSE Return([metric_col |-> "metric_daily_revenue", metric_label |-> "revenue",
                      metric_tag |-> "revenue", baseline_floor |-> 0])
    ELSE Raise("SystemExit", <<"ERROR: Unknown metric selection.">>)

----------------------------------------------------------------------------
(* src/src/normalize.py infer_app_id_from_path *)
\* A path is a sequence of characters; a character is a one-character string,
\* and SuperscriptTwo stands for the character U+00B2.

SuperscriptTwo == "sup2"
\* str.isdigit() of one character: the decimal digits and the other digit
\* characters (superscripts, circled digits)
IsDigitChar(c) == c \in {"0", "1", SuperscriptTwo}
\* a character that \d matches and int() accepts
IsDecimalChar(c) == c \in {"0", "1"}
DecimalValue(c) == IF c = "1" THEN 1 ELSE 0

\* the indices of the characters before the first "/" at or after i
RECURSIVE ComponentEnd(_, _)
ComponentEnd(chars, i) ==
    IF i > Len(chars) \/ chars[i] = "/" THEN i - 1 ELSE ComponentEnd(chars, i + 1)

\* pathlib: the parts of a POSIX path between the separators, the empty ones
\* and the "." ones dropped
RECURSIVE Components(_, _)
Components(chars, i) ==
    IF i > Len(chars) THEN <<>>
    ELSE IF chars[i] = "/" THEN Components(chars, i + 1)
    ELSE LET j == ComponentEnd(chars, i)
             part == SubSeq(chars, i, j)
         IN  (IF part = <<".">> THEN <<>> ELSE <<part>>) \o Components(chars, j + 1)

\* PurePath.name: the last component, empty when there is none
Name(chars) ==
    LET parts == Components(chars, 1)
    IN  IF parts = <<>> THEN <<>> ELSE parts[Len(parts)]

\* PurePath.stem: name[:i] for i = name.rfind(".") when 0 < i < len(name) - 1
\* (positions from 0), else the name
Stem(chars) ==
    LET name == Name(chars)
        dots == {i \in 1..Len(name) : name[i] = "."}
    IN  IF dots = {} THEN name
        ELSE LET i == SetMax(dots)
             IN  IF 1 < i /\ i < Len(name) THEN SubSeq(name, 1, i - 1) ELSE name

\* str.isdigit(): every character is a digit character and there is one
IsDigit(text) == text # <<>> /\ \A i \in 1..Len(text) : IsDigitChar(text[i])

RECURSIVE DecimalNumber(_)
\* the value of a string of decimal digits
DecimalNumber(text) ==
    IF text = <<>> THEN 0
    ELSE 10 * DecimalNumber(SubSeq(text, 1, Len(text) - 1)) + DecimalValue(text[Len(text)])

\* int(text): ValueError unless every character is a decimal digit
IntOf(text) ==
    IF text # <<>> /\ \A i \in 1..Len(text) : IsDecimalChar(text[i])
    THEN [raised |-> FALSE, value |-> Some(DecimalNumber(text))]
    ELSE [raised |-> TRUE, value |-> Null]

RECURSIVE RunEnd(_, _)
RunEnd(text, i) ==
    IF i > Len(text) \/ ~IsDecimalChar(text[i]) THEN i - 1 ELSE RunEnd(text, i + 1)

RECURSIVE Finditer(_, _)
\* list(re.finditer(r"\d+", stem)): the maximal runs of decimal digits from
\* position i on, left to right, each with its start
Finditer(text, i) ==
    IF i > Len(text) THEN <<>>
    ELSE IF ~IsDecimalChar(text[i]) THEN Finditer(text, i + 1)
    ELSE LET j == RunEnd(text, i)
         IN  <<[start |-> i, group |-> SubSeq(text, i, j)]>> \o Finditer(text, j + 1)

\* normalize.py:73 key=lambda m: (-len(m.group(0)), m.start())
CandidateBefore(x, y) ==
    Len(x.group) > Len(y.group) \/ (Len(x.group) = Len(y.group) /\ x.start <= y.start)

RECURSIVE SortCandidates(_)
\* candidates.sort(key=...)
SortCandidates(c) ==
    IF c = <<>> THEN <<>>
    ELSE LET i == CHOOSE j \in 1..Len(c) : \A k \in 1..Len(c) : CandidateBefore(c[j], c[k])
         IN  <<c[i]>> \o SortCandidates(SubSeq(c, 1, i - 1) \o SubSeq(c, i + 1, Len(c)))

\* infer_app_id_from_path(path): the value returned (Null is None), or the
\* ValueError of int()
InferAppIdFromPath(p) ==
    IF IsNull(p) THEN [raised |-> FALSE, value |-> Null]
    ELSE LET stem == Stem(Val(p))
             candidates == Finditer(stem, 1)
         IN  IF IsDigit(stem) THEN IntOf(stem)
             ELSE IF candidates = <<>> THEN [raised |-> FALSE, value |-> Null]
             ELSE IntOf(SortCandidates(candidates)[1].group)

----------------------------------------------------------------------------
(* src/scripts/build_tail_validation.py preperiod_bias_check *)
\* A lift is kept exact, as the pair <<numerator, denominator>> with a
\* positive denominator.

FracLess(x, y) == x[1] * y[2] < y[1] * x[2]

RECURSIVE SortFracs(_)
SortFracs(fracs) ==
    IF fracs = <<>> THEN <<>>
    ELSE LET i == CHOOSE j \in 1..Len(fracs) :
                      \A n \in 1..Len(fracs) : ~FracLess(fracs[n], fracs[j])
         IN  <<fracs[i]>> \o SortFracs(SubSeq(fracs, 1, i - 1) \o SubSeq(fracs, i + 1, Len(fracs)))

\* Series.median() of a non-empty series without NaN
MedianFrac(fracs) ==
    LET sorted == SortFracs(fracs)
        n == Len(sorted)
        lo == sorted[n \div 2]
        hi == sorted[n \div 2 + 1]
    IN  IF n % 2 = 1 THEN sorted[(n + 1) \div 2]
        ELSE <<lo[1] * hi[2] + hi[1] * lo[2], 2 * lo[2] * hi[2]>>

\* med.abs() > 5
AbsAbove5(x) == (IF x[1] < 0 THEN -x[1] ELSE x[1]) > 5 * x[2]

\* lines 215-217: 100 * (metric - baseline) / baseline of a row that passed the
\* floor, Null where the result is NaN or an infinity replaced by NaN
BiasLiftPct(row) ==
    IF IsNull(row.players) THEN Null
    ELSE IF Val(row.baseline_value) = 0 THEN Null
    ELSE IF Val(row.baseline_value) > 0
    THEN Some(<<100 * (Val(row.players) - Val(row.baseline_value)), Val(row.baseline_value)>>)
    ELSE Some(<<100 * (Val(row.baseline_value) - Val(row.players)), -Val(row.baseline_value)>>)

\* lines 213-217: the rows the medians are taken over
BiasRows(event_df, baseline_floor) ==
    SelectSeq2(event_df,
        [i \in 1..Len(event_df) |->
            /\ event_df[i].k >= -14 /\ event_df[i].k <= -1
            /\ NotNull(event_df[i].baseline_value)
            /\ Val(event_df[i].baseline_value) >= baseline_floor
            /\ NotNull(BiasLiftPct(event_df[i]))])

\* the group keys in the order groupby sorts them
GROUP_SEGMENTS == <<"head", "mid", "nan", "tail">>
BiasKeys ==
    [n \in 1..(Len(GROUP_SEGMENTS) * Len(DISCOUNT_TIER_ORDER)) |->
        <<GROUP_SEGMENTS[(n - 1) \div Len(DISCOUNT_TIER_ORDER) + 1],
          DISCOUNT_TIER_ORDER[((n - 1) % Len(DISCOUNT_TIER_ORDER)) + 1]>>]

\* the lifts of one (segment, tier) group
GroupLifts(rows, key) ==
    LET of == SelectSeq2(rows, [i \in 1..Len(rows) |->
                                   <<rows[i].segment, rows[i].discount_tier_bucket>> = key])
    IN  [i \in 1..Len(of) |-> Val(BiasLiftPct(of[i]))]

\* preperiod_bias_check(event_df, "players", baseline_floor): the list of
\* (segment, tier, median) it returns
PreperiodBiasCheck(event_df, baseline_floor) ==
    LET rows == BiasRows(event_df, baseline_floor)
        Flagged(key) == GroupLifts(rows, key) # <<>> /\ AbsAbove5(MedianFrac(GroupLifts(rows, key)))
        keys == SelectSeq2(BiasKeys, [n \in 1..Len(BiasKeys) |-> Flagged(BiasKeys[n])])
    IN  [n \in 1..Len(keys) |-> <<keys[n][1], keys[n][2], MedianFrac(GroupLifts(rows, keys[n]))>>]

----------------------------------------------------------------------------
(* The panel and detect_sales as a state machine: the ingestion collaborator *)
(* extends the panel one calendar day at a time; detect_sales may be run on *)
(* any snapshot.                                                            *)

Apps == {1, 2}
\* days of history the first product starts with; product a has a - 1 more
WarmUpDays == 6
History(a) == WarmUpDays + (a - 1)
\* calendar days added to the panel after the history, over all products
MaxDays == 5
\* the day before the panel's first date (tests use 2020-01-01 as first date)
Origin == Date(2020, 1, 1) - 1

Quiet == [players_avg |-> Some(100), discount_pct |-> Some(0)]
OnSale == [players_avg |-> Some(150), discount_pct |-> Some(10)]
NoPrice == [players_avg |-> Some(100), discount_pct |-> Null]
Unobserved == [players_avg |-> Null, discount_pct |-> Null]
WarmKinds == {Quiet, NoPrice}
DayKinds == {Quiet, OnSale, Unobserved}

\* src/src/config.py DEFAULT_CONFIG (the keys detect_sales reads)
DEFAULT_CONFIG ==
    [event_window_pre_days |-> 14, event_window_post_days |-> 14,
     baseline_pre_days |-> 14, baseline_exclude_days |-> 1,
     peak_window_days |-> 7, decay_window_days |-> 14,
     decay_tolerance |-> 5, decay_roll_days |-> 3,
     discount_tiers |-> <<10, 25, 50, 75, 90>>, popularity_quantiles |-> 4,
     cadence_lookback_days |-> 90, wishlist_notify_discount_pct |-> 20]
Configs ==
    {DEFAULT_CONFIG,
     [DEFAULT_CONFIG EXCEPT !.baseline_pre_days = 8, !.cadence_lookback_days = 2]}

PanelRow(a, d, k) ==
    [app_id |-> a, date |-> d, players_avg |-> k.players_avg, discount_pct |-> k.discount_pct]

NoSales == <<>>
NoCache == <<>>

InitSales ==
    /\ \E w \in WarmKinds :
         panel = UNION {{PanelRow(a, Origin + d, w) : d \in 1..History(a)} : a \in Apps}
    /\ today = [a \in Apps |-> Origin + History(a)]
    /\ config \in Configs
    /\ pc = "idle"
    /\ cadence_cache = NoCache
    /\ sales = NoSales
    /\ info = [excluded |-> 0]
    /\ ParkedOutsideSales

DaysAdded == SumSeq([a \in 1..Cardinality(Apps) |-> today[a] - Origin - History(a)])

\* a new panel row for product a on its next calendar date
AppendDay(a, k) ==
    /\ DaysAdded < MaxDays
    /\ panel' = panel \cup {PanelRow(a, today[a] + 1, k)}
    /\ today' = [today EXCEPT ![a] = @ + 1]
    /\ pc' = "idle" /\ cadence_cache' = NoCache /\ sales' = NoSales
    /\ info' = [excluded |-> 0]
    /\ UNCHANGED <<config, outsideSales>>

\* a calendar date for which product a has no panel row
SkipDay(a) ==
    /\ DaysAdded < MaxDays
    /\ today' = [today EXCEPT ![a] = @ + 1]
    /\ pc' = "idle" /\ cadence_cache' = NoCache /\ sales' = NoSales
    /\ info' = [excluded |-> 0]
    /\ UNCHANGED <<panel, config, outsideSales>>

\* detect_sales(panel, config)
DetectSales ==
    /\ pc = "idle"
    /\ \E out \in {DetectSalesRun(panel, config)} :
         IF out.raised
         THEN \* sales.py:113 raise ValueError
              /\ pc' = "error"
              /\ UNCHANGED <<cadence_cache, sales, info>>
         ELSE /\ pc' = "ok"
              /\ cadence_cache' = out.cadence_cache
              /\ sales' = out.sales
              /\ info' = [excluded |-> out.excluded]
    /\ UNCHANGED <<panel, today, config, outsideSales>>

NextSales ==
    \/ \E a \in Apps, k \in DayKinds : AppendDay(a, k)
    \/ \E a \in Apps : SkipDay(a)
    \/ DetectSales

SpecSales == InitSales /\ [][NextSales]_vars

----------------------------------------------------------------------------
(* Decay of one sale on a panel that grows after the sale has ended *)

\* calendar days the panel may cover after the sale's end
MaxPostDays == 4
\* the sale ends on 2020-01-10 (tests/test_metrics.py)
SaleEnd == Date(2020, 1, 10)
PostValues == {Null, Some(100), Some(105), Some(120), Some(150)}
DecayConfigs ==
    {DEFAULT_CONFIG,
     [DEFAULT_CONFIG EXCEPT !.decay_window_days = 3, !.decay_roll_days = 2]}

MetricRow(a, d, v) == [app_id |-> a, date |-> d, players_avg |-> v, discount_pct |-> Some(0)]

InitDecay ==
    /\ \E b \in {Null, Some(100)} :
         decay_sale = [sale_id |-> <<1, SaleEnd>>, app_id |-> 1,
                     sale_start_date |-> SaleEnd, sale_end_date |-> SaleEnd,
                     baseline_players |-> b]
    /\ \E v \in {Some(100), Some(150)} :
         panel = {MetricRow(1, SaleEnd - 2, Some(100)), MetricRow(1, SaleEnd - 1, Some(100)),
                  MetricRow(1, SaleEnd, v), MetricRow(2, SaleEnd + 1, Some(100))}
    /\ today = [a \in Apps |-> SaleEnd]
    /\ config \in DecayConfigs
    /\ pc = "idle"
    /\ decay = Null
    /\ decay_summary = Null
    /\ ParkedOutsideDecay

\* the panel gains the product's row for the next calendar date
AppendPost(v) ==
    /\ today[1] - SaleEnd < MaxPostDays
    /\ panel' = panel \cup {MetricRow(1, today[1] + 1, v)}
    /\ today' = [today EXCEPT ![1] = @ + 1]
    /\ pc' = "idle" /\ decay' = Null /\ decay_summary' = Null
    /\ UNCHANGED <<config, decay_sale, outsideDecay>>

\* a calendar date with no panel row
SkipPost ==
    /\ today[1] - SaleEnd < MaxPostDays
    /\ today' = [today EXCEPT ![1] = @ + 1]
    /\ pc' = "idle" /\ decay' = Null /\ decay_summary' = Null
    /\ UNCHANGED <<panel, config, decay_sale, outsideDecay>>

\* metrics.py: decay = compute_decay_days_to_baseline(row, panel_data, config, player_metric)
ComputeDecayDays ==
    /\ pc = "idle"
    /\ decay' = ComputeDecayDaysToBaseline(decay_sale, panel, config)
    /\ pc' = "decayed"
    /\ UNCHANGED <<panel, today, config, decay_sale, decay_summary, outsideDecay>>

\* build_tail_validation.py: compute_decay over the sale's event window
ComputeDecay ==
    /\ decay_summary = Null
    /\ NotNull(decay_sale.baseline_players)
    /\ decay_summary' = Some(DecayForGroup(BuildEventWindow(panel, <<decay_sale>>, config)))
    /\ UNCHANGED <<panel, today, config, decay_sale, pc, decay, outsideDecay>>

NextDecay ==
    \/ \E v \in PostValues : AppendPost(v)
    \/ SkipPost
    \/ ComputeDecayDays
    \/ ComputeDecay

SpecDecay == InitDecay /\ [][NextDecay]_vars

----------------------------------------------------------------------------
(* compute_aul on an event window given row by row *)

\* rows of the event window handed to compute_aul
MaxAulRows == 3
\* lift ratios in hundredths: 0.8, 1.2, 1.5 (tests/test_metrics.py) and NaN
LiftRatios == {Null, Some(80), Some(120), Some(150)}

InitAul ==
    /\ event_window = <<>>
    /\ aul = Null
    /\ pc = "idle"
    /\ ParkedOutsideAul

AppendEventRow(lr, b) ==
    /\ Len(event_window) < MaxAulRows
    /\ event_window' = Append(event_window, [lift_ratio |-> lr, in_sale |-> b])
    /\ aul' = Null
    /\ pc' = "idle"
    /\ UNCHANGED outsideAul

\* aul = compute_aul(event_window)
ComputeAulStep ==
    /\ pc = "idle"
    /\ aul' = ComputeAul(event_window)
    /\ pc' = "aul"
    /\ UNCHANGED <<event_window, outsideAul>>

NextAul ==
    \/ \E lr \in LiftRatios, b \in BOOLEAN : AppendEventRow(lr, b)
    \/ ComputeAulStep

SpecAul == InitAul /\ [][NextAul]_vars

----------------------------------------------------------------------------
(* add_sale_metrics, run and then re-run on its own output *)

\* runs of add_sale_metrics on one input (the first run and the refreshes)
MaxPasses == 2
\* first day of the sales (tests/test_sales_detection.py: 2020-01-15)
SaleStart == Date(2020, 1, 15)
MetricsConfigs ==
    {DEFAULT_CONFIG,
     [DEFAULT_CONFIG EXCEPT !.event_window_pre_days = 2, !.event_window_post_days = 3,
                            !.peak_window_days = 1, !.decay_window_days = 2, !.decay_roll_days = 2]}

SaleA == [sale_id |-> <<1, SaleStart>>, app_id |-> 1, sale_start_date |-> SaleStart,
          sale_end_date |-> SaleStart + 1, baseline_players |-> Some(100)]
\* the sale of product 1 when it lasts five days, longer than the short window
SaleLong == [SaleA EXCEPT !.sale_end_date = SaleStart + 4]
SaleB == [sale_id |-> <<2, SaleStart>>, app_id |-> 2, sale_start_date |-> SaleStart,
          sale_end_date |-> SaleStart, baseline_players |-> Some(100)]

\* metric columns a sales frame may already carry when it is handed in
NoStale == <<>>
StaleMetrics == [peak_lift_pct |-> Some(999), AUL |-> Some(999), decay_days_to_baseline |-> Some(99)]
StaleSuffixed == [peak_lift_pct_x |-> Some(999), AUL_y |-> Some(999)]
StaleColumns == {NoStale, StaleMetrics, StaleSuffixed}

\* the panel around the two sales: product 1's metric on the sale's first day
\* and the three days after its end is chosen, Null meaning no row
MetricsPanel(v) ==
    {MetricRow(1, SaleStart - 1, Some(100)), MetricRow(1, SaleStart + 1, Some(120)),
     MetricRow(2, SaleStart, Some(150)), MetricRow(2, SaleStart + 1, Some(100))}
    \cup (IF NotNull(v[1]) THEN {MetricRow(1, SaleStart, v[1])} ELSE {})
    \cup {MetricRow(1, SaleStart + 1 + d, v[1 + d]) : d \in {e \in 1..3 : NotNull(v[1 + e])}}

InitMetrics ==
    /\ \E v \in [1..4 -> {Null, Some(100), Some(150)}] : panel = MetricsPanel(v)
    /\ config \in MetricsConfigs
    /\ \E first \in {SaleA, SaleLong} :
         /\ \E st \in StaleColumns : sales = <<first @@ st, SaleB @@ st>>
         /\ \E covered \in {<<first, SaleB>>, <<first>>} :
              event_window = BuildEventWindow(panel, covered, config)
    /\ merged = <<>>
    /\ passes = 0
    /\ pc = "idle"
    /\ ParkedOutsideMetrics

\* sales = add_sale_metrics(sales, event_window, panel, config)
AddMetrics ==
    /\ passes = 0
    /\ merged' = AddSaleMetrics(sales, event_window, panel, config)
    /\ passes' = 1
    /\ pc' = "metrics"
    /\ UNCHANGED <<panel, config, sales, event_window, outsideMetrics>>

\* the refresh: add_sale_metrics applied to the frame it returned
RefreshMetrics ==
    /\ passes >= 1 /\ passes < MaxPasses
    /\ sales' = merged
    /\ merged' = AddSaleMetrics(merged, event_window, panel, config)
    /\ passes' = passes + 1
    /\ UNCHANGED <<panel, config, event_window, pc, outsideMetrics>>

NextMetrics ==
    \/ AddMetrics
    \/ RefreshMetrics

SpecMetrics == InitMetrics /\ [][NextMetrics]_vars

----------------------------------------------------------------------------
(* add_buckets and build_playbook_table on a frame of sales *)

\* sales in the frame handed to add_buckets
MaxBucketSales == 3

Missing == Null
NonNumeric == Some([num |-> FALSE, val |-> 0])
Number(v) == Some([num |-> TRUE, val |-> v])
\* raw sale_depth_max cells (tests/test_buckets.py uses 10, None, 150, -5)
Depths == {Missing, NonNumeric, Number(-5), Number(10), Number(150)}

\* baseline_players, sale_share_last_90d (in hundredths) and peak_lift_pct of a sale
Profiles ==
    {[baseline_players |-> Null, sale_share_last_90d |-> Null, peak_lift_pct |-> Null],
     [baseline_players |-> Some(100), sale_share_last_90d |-> Some(10), peak_lift_pct |-> Some(20)],
     [baseline_players |-> Some(200), sale_share_last_90d |-> Some(50), peak_lift_pct |-> Some(40)]}

\* the default tiers, and percent-style tiers given out of order with two
\* popularity quantiles
BucketConfigs ==
    {DEFAULT_CONFIG,
     [DEFAULT_CONFIG EXCEPT !.discount_tiers = <<4000, 2000, 6000, 8000, 9000>>,
                            !.popularity_quantiles = 2]}

InitBuckets ==
    /\ sales = <<>>
    /\ config \in BucketConfigs
    /\ bucketed = <<>>
    /\ playbook = {}
    /\ pc = "idle"
    /\ ParkedOutsideBuckets

\* one more detected sale in the frame; sale_id is never missing
AppendSale(depth, profile) ==
    /\ pc = "idle"
    /\ Len(sales) < MaxBucketSales
    /\ sales' = Append(sales, [sale_id |-> Some(Len(sales) + 1), sale_depth_max |-> depth] @@ profile)
    /\ UNCHANGED <<config, pc, bucketed, playbook, outsideBuckets>>

\* bucketed = add_buckets(sales, config)
AddBucketsStep ==
    /\ pc = "idle"
    /\ bucketed' = AddBuckets(sales, config)
    /\ pc' = "bucketed"
    /\ UNCHANGED <<sales, config, playbook, outsideBuckets>>

\* playbook = build_playbook_table(bucketed)
BuildPlaybookStep ==
    /\ pc = "bucketed"
    /\ playbook' = BuildPlaybookTable(bucketed)
    /\ pc' = "tabled"
    /\ UNCHANGED <<sales, config, bucketed, outsideBuckets>>

NextBuckets ==
    \/ \E depth \in Depths, profile \in Profiles : AppendSale(depth, profile)
    \/ AddBucketsStep
    \/ BuildPlaybookStep

SpecBuckets == InitBuckets /\ [][NextBuckets]_vars

----------------------------------------------------------------------------
(* collapse_tiers_for_segment on an event frame *)

\* sales whose event rows make up the frame
MaxCollapseSales == 3
\* calls of collapse_tiers_for_segment sharing one notes list
MaxCollapseCalls == 2
\* segments and tiers the frame's sales are drawn from, and how many event
\* rows a sale contributes
FrameSegments == {"tail", "mid"}
FrameTiers == {"26-50%", "51-75%", "76-100%"}
RowsPerSale == {9, 10}

SalesInFrame == IF df = <<>> THEN 0 ELSE df[Len(df)].sale_id

InitCollapse ==
    /\ df = <<>>
    /\ returned = <<>>
    /\ tier_order = <<>>
    /\ notes = <<>>
    /\ calls = <<>>
    /\ pc = "idle"
    /\ ParkedOutsideCollapse

\* the event rows (k = 0 .. n - 1) of one more sale, which carry the sale's
\* segment and discount tier
AppendSaleRows(seg, tier, n) ==
    /\ calls = <<>>
    /\ SalesInFrame < MaxCollapseSales
    /\ df' = df \o [k \in 1..n |-> [sale_id |-> SalesInFrame + 1, k |-> k - 1,
                                    segment |-> seg, discount_tier_bucket |-> tier]]
    /\ UNCHANGED <<returned, tier_order, notes, calls, pc, outsideCollapse>>

\* returned, tier_order = collapse_tiers_for_segment(df, seg, notes)
Collapse(seg) ==
    /\ Len(calls) < MaxCollapseCalls
    /\ LET out == CollapseTiersForSegment(df, seg, notes)
       IN  /\ df' = out.input
           /\ returned' = out.frame
           /\ tier_order' = out.tier_order
           /\ notes' = out.notes
    /\ calls' = Append(calls, seg)
    /\ pc' = "collapsed"
    /\ UNCHANGED outsideCollapse

NextCollapse ==
    \/ \E seg \in FrameSegments, tier \in FrameTiers, n \in RowsPerSale : AppendSaleRows(seg, tier, n)
    \/ \E seg \in Range(SEGMENT_ORDER) : Collapse(seg)

SpecCollapse == InitCollapse /\ [][NextCollapse]_vars

----------------------------------------------------------------------------
(* assign_segments on a baseline series, called again on the same series *)

\* runs of equal values in the baseline series
MaxBaselineRuns == 4
\* calls of assign_segments on the series, sharing the notes list
MaxAssignCalls == 2
BaselineValues == {Null, Some(Inf), Some(10), Some(20), Some(30), Some(40)}
RunLengths == {30, 120}

outsideSegments ==
    <<panel, config, sales, df, returned, tier_order, calls,
      detectState, decayState, metricsState, bucketState, inputState, peakState, pathState, seasonState, biasState>>
ParkedOutsideSegments ==
    /\ panel = <<>> /\ config = <<>> /\ sales = <<>>
    /\ df = <<>> /\ returned = <<>> /\ tier_order = <<>> /\ calls = <<>>
    /\ ParkedDetect /\ ParkedDecay /\ ParkedMetrics /\ ParkedBuckets
    /\ ParkedInputs
    /\ ParkedPeaks
    /\ ParkedPath
    /\ ParkedSeason
    /\ ParkedBias

InitSegments ==
    /\ baseline_value = <<>>
    /\ assigned = <<>>
    /\ notes = <<>>
    /\ pc = "idle"
    /\ ParkedOutsideSegments

\* the n event rows of one more sale, all holding the sale's baseline value
\* (prep_data merges the per-sale baseline onto the rows on sale_id)
AppendBaselineRun(v, n) ==
    /\ assigned = <<>>
    /\ Len(baseline_value) < MaxBaselineRuns
    /\ baseline_value' = Append(baseline_value, [value |-> v, n |-> n])
    /\ UNCHANGED <<assigned, notes, pc, outsideSegments>>

\* segments = assign_segments(baseline_value, notes), on a frame that has rows
AssignSegmentsStep ==
    /\ baseline_value # <<>>
    /\ Len(assigned) < MaxAssignCalls
    /\ \E out \in {AssignSegments(baseline_value, notes)} :
           /\ assigned' = Append(assigned, out)
           /\ notes' = out.notes
           /\ pc' = IF out.raised THEN "error" ELSE "segmented"
    /\ UNCHANGED <<baseline_value, outsideSegments>>

NextSegments ==
    \/ \E v \in BaselineValues, n \in RunLengths : AppendBaselineRun(v, n)
    \/ AssignSegmentsStep

SpecSegments == InitSegments /\ [][NextSegments]_vars

----------------------------------------------------------------------------
(* build_event_window and compute_peaks on a panel around the sales *)

\* panel rows of product 1 around the sale start
MaxWindowRows == 3
\* offsets from the sale start at which the panel may have a row
PanelOffsets == (-2..2) \cup {7}
PanelValues == {0, 100, 150}
\* medians a sale may carry as baseline_players; 0 is the median of a
\* product with no players on most baseline days
SaleBaselines == {0, 50, 100}
\* metric_config: baseline_floor 0.0 (units, revenue) and 1.0 (playercount)
BaselineFloors == {0, 1}
WindowConfigs ==
    {DEFAULT_CONFIG,
     [DEFAULT_CONFIG EXCEPT !.event_window_pre_days = 2, !.event_window_post_days = 3]}
WindowSale(a, b) ==
    [sale_id |-> <<a, SaleStart>>, app_id |-> a, sale_start_date |-> SaleStart,
     sale_end_date |-> SaleStart + 1, baseline_players |-> Some(b)]

outsideWindow ==
    <<aul, merged, passes, detectState, decayState, bucketState, collapseState, segmentState,
      inputState, pathState, seasonState, biasState>>
ParkedOutsideWindow ==
    /\ aul = <<>> /\ merged = <<>> /\ passes = <<>>
    /\ ParkedDetect /\ ParkedDecay /\ ParkedBuckets /\ ParkedCollapse /\ ParkedSegments
    /\ ParkedInputs
    /\ ParkedPath
    /\ ParkedSeason
    /\ ParkedBias

InitWindow ==
    /\ panel = {}
    /\ config \in WindowConfigs
    /\ \E b \in SaleBaselines :
         sales \in {<<WindowSale(1, b)>>, <<WindowSale(1, b), WindowSale(2, 100)>>}
    /\ event_window = <<>>
    /\ peaks = <<>>
    /\ pc = "idle"
    /\ ParkedOutsideWindow

\* the panel gets a row for product 1 on a date it has none for
ObserveDay(d, v) ==
    /\ pc = "idle"
    /\ Cardinality(panel) < MaxWindowRows
    /\ \A r \in panel : r.date # SaleStart + d
    /\ panel' = panel \cup {MetricRow(1, SaleStart + d, Some(v))}
    /\ UNCHANGED <<config, sales, event_window, peaks, pc, outsideWindow>>

\* event_window = build_event_window(panel, sales, config)
BuildWindow ==
    /\ pc = "idle"
    /\ event_window' = BuildEventWindow(panel, sales, config)
    /\ pc' = "built"
    /\ UNCHANGED <<panel, config, sales, peaks, outsideWindow>>

\* prep_data: the baseline merge and compute_peaks(event_df, "players", floor)
ComputePeaksStep(baseline_floor) ==
    /\ pc = "built"
    /\ peaks' = ComputePeaks(WithBaseline(event_window), baseline_floor)
    /\ pc' = "peaks"
    /\ UNCHANGED <<panel, config, sales, event_window, outsideWindow>>

NextWindow ==
    \/ \E d \in PanelOffsets, v \in PanelValues : ObserveDay(d, v)
    \/ BuildWindow
    \/ \E f \in BaselineFloors : ComputePeaksStep(f)

SpecWindow == InitWindow /\ [][NextWindow]_vars

----------------------------------------------------------------------------
(* The input checks of detect_sales, build_event_window and metric_config *)

\* columns the frame may have
MaxColumns == 4
ColumnNames ==
    {"players_avg", "players_max", "discount_pct", "players", "metric_daily_units",
     "metric_daily_revenue"}
\* config["daily_player_metric"] / the player_metric argument
PlayerMetrics == {"players_avg", "players_max"}
\* the --metric choices of the script
MetricChoices == {"playercount", "units", "revenue"}

outsideInputs ==
    <<panel, config, sales, detectState, decayState, metricsState, bucketState, collapseState,
      segmentState, peakState, pathState, seasonState, biasState>>
ParkedOutsideInputs ==
    /\ panel = <<>> /\ config = <<>> /\ sales = <<>>
    /\ ParkedDetect /\ ParkedDecay /\ ParkedMetrics /\ ParkedBuckets /\ ParkedCollapse
    /\ ParkedSegments
    /\ ParkedPeaks
    /\ ParkedPath
    /\ ParkedSeason
    /\ ParkedBias

InitInputs ==
    /\ columns = <<>>
    /\ outcome = <<>>
    /\ pc = "idle"
    /\ ParkedOutsideInputs

\* the frame has one more column, with n non-null cells
AddColumn(c, n) ==
    /\ pc = "idle"
    /\ c \notin DOMAIN columns
    /\ Cardinality(DOMAIN columns) < MaxColumns
    /\ columns' = (c :> n) @@ columns
    /\ UNCHANGED <<outcome, pc, outsideInputs>>

\* detect_sales(panel, config, player_metric) up to its input checks
CheckDetectSales(player_metric) ==
    /\ pc = "idle"
    /\ outcome' = [call |-> "detect_sales", metric |-> player_metric]
                    @@ RequireColumns(columns, player_metric)
    /\ pc' = "checked"
    /\ UNCHANGED <<columns, outsideInputs>>

\* build_event_window(panel, sales, config, player_metric) up to its input check
CheckBuildEventWindow(player_metric) ==
    /\ pc = "idle"
    /\ outcome' = [call |-> "build_event_window", metric |-> player_metric]
                    @@ RequireMetric(columns, player_metric)
    /\ pc' = "checked"
    /\ UNCHANGED <<columns, outsideInputs>>

\* metric_config(metric, event_df)
CheckMetricConfig(metric) ==
    /\ pc = "idle"
    /\ outcome' = [call |-> "metric_config", metric |-> metric] @@ MetricConfig(metric, columns)
    /\ pc' = "checked"
    /\ UNCHANGED <<columns, outsideInputs>>

NextInputs ==
    \/ \E c \in ColumnNames, n \in {0, 1} : AddColumn(c, n)
    \/ \E m \in PlayerMetrics : CheckDetectSales(m)
    \/ \E m \in PlayerMetrics : CheckBuildEventWindow(m)
    \/ \E m \in MetricChoices : CheckMetricConfig(m)

SpecInputs == InitInputs /\ [][NextInputs]_vars

----------------------------------------------------------------------------
(* infer_app_id_from_path on the paths over a small alphabet *)

\* characters of a path
MaxPathLen == 5
PathChars == {"0", "1", "a", ".", "/", SuperscriptTwo}

outsidePath ==
    <<panel, config, sales, detectState, decayState, metricsState, bucketState, collapseState,
      segmentState, inputState, peakState, seasonState, biasState>>
ParkedOutsidePath ==
    /\ panel = <<>> /\ config = <<>> /\ sales = <<>>
    /\ ParkedDetect /\ ParkedDecay /\ ParkedMetrics /\ ParkedBuckets /\ ParkedCollapse
    /\ ParkedSegments /\ ParkedInputs /\ ParkedPeaks
    /\ ParkedSeason
    /\ ParkedBias

InitPath ==
    /\ path \in {Null, Some(<<>>)}
    /\ inferred = <<>>
    /\ pc = "idle"
    /\ ParkedOutsidePath

\* the path is one character longer
AppendChar(c) ==
    /\ pc = "idle"
    /\ NotNull(path)
    /\ Len(Val(path)) < MaxPathLen
    /\ path' = Some(Append(Val(path), c))
    /\ UNCHANGED <<inferred, pc, outsidePath>>

\* infer_app_id_from_path(path)
InferAppId ==
    /\ pc = "idle"
    /\ inferred' = InferAppIdFromPath(path)
    /\ pc' = IF inferred'.raised THEN "error" ELSE "inferred"
    /\ UNCHANGED <<path, outsidePath>>

NextPath ==
    \/ \E c \in PathChars : AppendChar(c)
    \/ InferAppId

SpecPath == InitPath /\ [][NextPath]_vars

----------------------------------------------------------------------------
(* _seasonal_overlap on episodes that start in 2020 *)

\* times an episode is made longer
MaxExtensions == 2
\* first days: every day of 2020
SpanStarts == Date(2020, 1, 1)..Date(2020, 12, 31)
\* days by which an episode is made longer: a day, two weeks, a year and a
\* day, two years and a day
SpanSteps == {1, 14, 366, 731}

outsideSeason ==
    <<panel, config, sales, detectState, decayState, metricsState, bucketState, collapseState,
      segmentState, inputState, peakState, pathState, biasState>>
ParkedOutsideSeason ==
    /\ panel = <<>> /\ config = <<>> /\ sales = <<>>
    /\ ParkedDetect /\ ParkedDecay /\ ParkedMetrics /\ ParkedBuckets /\ ParkedCollapse
    /\ ParkedSegments /\ ParkedInputs /\ ParkedPeaks /\ ParkedPath
    /\ ParkedBias

InitSeason ==
    /\ \E s \in SpanStarts : sale_span = [start |-> s, end |-> s, extensions |-> 0]
    /\ tagged = <<>>
    /\ pc = "idle"
    /\ ParkedOutsideSeason

\* the episode lasts n days longer
ExtendSpan(n) ==
    /\ pc = "idle"
    /\ sale_span.extensions < MaxExtensions
    /\ sale_span' = [sale_span EXCEPT !.end = @ + n, !.extensions = @ + 1]
    /\ UNCHANGED <<tagged, pc, outsideSeason>>

\* _seasonal_overlap(start, end)
TagSeason ==
    /\ pc = "idle"
    /\ tagged' = Some(SeasonalOverlap(sale_span.start, sale_span.end))
    /\ pc' = "tagged"
    /\ UNCHANGED <<sale_span, outsideSeason>>

NextSeason ==
    \/ \E n \in SpanSteps : ExtendSpan(n)
    \/ TagSeason

SpecSeason == InitSeason /\ [][NextSeason]_vars

----------------------------------------------------------------------------
(* preperiod_bias_check on an event frame given row by row *)

\* rows of the event frame
MaxBiasRows == 3
\* offsets: before the 14 pre-event days, their first and last day, day 0
BiasOffsets == {-15, -14, -1, 0}
\* tail and mid sales, all of one discount tier
BiasSegments == <<"mid", "tail">>
BiasTier == "26-50%"
\* metric and baseline of a row: no metric, no baseline, a zero baseline, and
\* lifts of -6, -5, 5 and 6 percent
Observations ==
    <<[players |-> Null, baseline_value |-> Some(100)],
      [players |-> Some(100), baseline_value |-> Null],
      [players |-> Some(50), baseline_value |-> Some(0)],
      [players |-> Some(94), baseline_value |-> Some(100)],
      [players |-> Some(95), baseline_value |-> Some(100)],
      [players |-> Some(21), baseline_value |-> Some(20)],
      [players |-> Some(106), baseline_value |-> Some(100)]>>

outsideBias ==
    <<panel, today, config, sales, detectState, decayState, metricsState, bucketState,
      collapseState, segmentState, inputState, peakState, pathState, seasonState>>
ParkedOutsideBias ==
    /\ panel = <<>> /\ today = <<>> /\ config = <<>> /\ sales = <<>>
    /\ ParkedDetect /\ ParkedDecay /\ ParkedMetrics /\ ParkedBuckets /\ ParkedCollapse
    /\ ParkedSegments /\ ParkedInputs /\ ParkedPeaks /\ ParkedPath /\ ParkedSeason

InitBias ==
    /\ bias_df = <<>>
    /\ warnings = <<>>
    /\ pc = "idle"
    /\ ParkedOutsideBias

\* the place of a row among the rows a frame is made of
RowRank(row) ==
    LET s == CHOOSE n \in 1..Len(BiasSegments) : BiasSegments[n] = row.segment
        o == CHOOSE n \in 1..Len(Observations) :
                 Observations[n] = [players |-> row.players, baseline_value |-> row.baseline_value]
    IN  ((row.k + 15) * Len(BiasSegments) + s) * Len(Observations) + o

\* one more row of the frame; rows arrive in a fixed order, which the
\* grouped medians do not depend on
AppendBiasRow(k, s, o) ==
    /\ pc = "idle"
    /\ Len(bias_df) < MaxBiasRows
    /\ \E row \in {[k |-> k, segment |-> BiasSegments[s], discount_tier_bucket |-> BiasTier]
                      @@ Observations[o]} :
         /\ bias_df # <<>> => RowRank(bias_df[Len(bias_df)]) <= RowRank(row)
         /\ bias_df' = Append(bias_df, row)
    /\ UNCHANGED <<warnings, pc, outsideBias>>

\* warnings = preperiod_bias_check(event_df, metric_col, baseline_floor)
CheckBias(baseline_floor) ==
    /\ pc = "idle"
    /\ warnings' = [baseline_floor |-> baseline_floor,
                    flagged |-> PreperiodBiasCheck(bias_df, baseline_floor)]
    /\ pc' = "checked"
    /\ UNCHANGED <<bias_df, outsideBias>>

NextBias ==
    \/ \E k \in BiasOffsets, s \in 1..Len(BiasSegments), o \in 1..Len(Observations) :
           AppendBiasRow(k, s, o)
    \/ \E f \in BaselineFloors : CheckBias(f)

SpecBias == InitBias /\ [][NextBias]_vars

----------------------------------------------------------------------------
(* Properties of episode detection (SpecSales) *)

\* the panel says product a is discounted on calendar date d
DiscountDay(a, d) ==
    \E r \in panel : r.app_id = a /\ r.date = d /\ NotNull(r.discount_pct) /\ Val(r.discount_pct) > 0

PanelDates == (Origin + 1)..(Origin + History(Cardinality(Apps)) + MaxDays)

\* the maximal runs of consecutive discount dates of product a, as <<first, last>>
MaximalRuns(a) ==
    {<<s, e>> \in PanelDates \X PanelDates :
        /\ s <= e
        /\ \A d \in s..e : DiscountDay(a, d)
        /\ ~DiscountDay(a, s - 1)
        /\ ~DiscountDay(a, e + 1)}

\* the episodes detect_sales built for product a (none when a has no cache entry)
DetectedEpisodes(a) ==
    IF a \in DOMAIN cadence_cache THEN cadence_cache[a].episodes ELSE <<>>

\* C1: for each product the episodes built by _build_sale_episodes are exactly
\* the maximal runs of consecutive calendar dates with discount_pct > 0 (null
\* and 0 are never discount days), listed by start date, each lasting from the
\* first to the last day of its run; a series without discount days gives no
\* episode and the run still succeeds.
C1_EpisodesAreMaximalRuns ==
    pc = "ok" =>
        \A a \in Apps :
            LET eps == DetectedEpisodes(a)
            IN  /\ {<<eps[i].sale_start_date, eps[i].sale_end_date>> : i \in 1..Len(eps)} = MaximalRuns(a)
                /\ Len(eps) = Cardinality(MaximalRuns(a))
                /\ \A i \in 1..Len(eps) :
                      eps[i].sale_duration_days = eps[i].sale_end_date - eps[i].sale_start_date + 1
                /\ \A i \in 1..(Len(eps) - 1) : eps[i].sale_end_date < eps[i + 1].sale_start_date

\* C1 witness: a run split in two by one zero-discount day, next to a product
\* with no discount day at all
C1_Witness ==
    /\ pc = "ok"
    /\ \E a \in Apps :
         LET eps == DetectedEpisodes(a)
         IN  /\ Len(eps) = 2
             /\ eps[1].sale_duration_days = 2
             /\ eps[2].sale_start_date = eps[1].sale_end_date + 2
             /\ \E r \in panel : r.app_id = a /\ r.date = eps[1].sale_end_date + 1
                                 /\ r.discount_pct = Some(0)
    /\ \E b \in Apps : DetectedEpisodes(b) = <<>>

\* C2: the sale records returned for one product have pairwise disjoint date
\* ranges with start <= end, and the output is ordered by app_id and, within a
\* product, by strictly increasing sale_start_date.
C2_SalesDisjointAndOrdered ==
    pc = "ok" =>
        /\ \A i \in 1..Len(sales) : sales[i].sale_start_date <= sales[i].sale_end_date
        /\ \A i \in 1..Len(sales) : \A j \in 1..Len(sales) :
              i < j =>
                 \/ sales[i].app_id < sales[j].app_id
                 \/ /\ sales[i].app_id = sales[j].app_id
                    /\ sales[i].sale_start_date < sales[j].sale_start_date
                    /\ sales[i].sale_end_date < sales[j].sale_start_date

\* C2 witness: two records of one product and a record of another product
C2_Witness ==
    /\ pc = "ok"
    /\ \E i \in 1..Len(sales) : \E j \in 1..Len(sales) :
          i < j /\ sales[i].app_id = sales[j].app_id
    /\ \E i \in 1..Len(sales) : \E j \in 1..Len(sales) :
          sales[i].app_id # sales[j].app_id

\* non-null metric observations of product a in the baseline window of an
\* episode starting at start
BaselineObservations(a, start) ==
    Cardinality({r \in panel :
        /\ r.app_id = a
        /\ NotNull(r.players_avg)
        /\ start - config.baseline_pre_days <= r.date
        /\ r.date <= start - config.baseline_exclude_days})

TotalDetected == SumSeq([a \in 1..Cardinality(Apps) |-> Len(DetectedEpisodes(a))])

\* C3: detect_sales drops exactly the detected episodes whose baseline window
\* holds fewer than 7 non-null observations and counts each in 'excluded':
\* returned records + excluded = detected episodes, and an episode is returned
\* if and only if its window holds 7 or more observations.
C3_ExcludedExactlyShortBaselines ==
    pc = "ok" =>
        /\ Len(sales) + info.excluded = TotalDetected
        /\ \A a \in Apps : \A e \in DOMAIN DetectedEpisodes(a) :
              LET start == DetectedEpisodes(a)[e].sale_start_date
              IN  (\E i \in 1..Len(sales) : sales[i].sale_id = <<a, start>>)
                    <=> BaselineObservations(a, start) >= 7
        /\ \A i \in 1..Len(sales) :
              \E e \in DOMAIN DetectedEpisodes(sales[i].app_id) :
                 DetectedEpisodes(sales[i].app_id)[e].sale_start_date = sales[i].sale_start_date

\* C3 witness: one product has an excluded episode followed by a returned one
\* (the run went on after the exclusion)
C3_Witness ==
    /\ pc = "ok"
    /\ info.excluded >= 1
    /\ \E a \in Apps :
         /\ Len(DetectedEpisodes(a)) = 2
         /\ BaselineObservations(a, DetectedEpisodes(a)[1].sale_start_date) < 7
         /\ \E i \in 1..Len(sales) :
               sales[i].sale_id = <<a, DetectedEpisodes(a)[2].sale_start_date>>

----------------------------------------------------------------------------
(* Properties of the decay computation (SpecDecay) *)

\* the product's panel rows dated after the sale's end
PostEndRows == {r \in panel : r.app_id = decay_sale.app_id /\ r.date > decay_sale.sale_end_date}

\* those inside the decay window sale_end_date+1 .. sale_end_date+decay_window_days
PostRows == {r \in PostEndRows : r.date <= decay_sale.sale_end_date + config.decay_window_days}

\* the last decay_roll_days rows of the window up to date d
RollingWindowAt(d) ==
    {r \in PostRows :
        /\ r.date <= d
        /\ Cardinality({q \in PostRows : r.date < q.date /\ q.date <= d}) < config.decay_roll_days}

\* the threshold baseline * (1 + decay_tolerance) is reached by the rolling
\* median (min_periods 1) at the row dated d
ReachedAt(d) ==
    LET m2 == Median2(MetricValues(RollingWindowAt(d)))
    IN  /\ NotNull(m2)
        /\ 100 * Val(m2) <= 2 * Val(decay_sale.baseline_players) * (100 + config.decay_tolerance)

HitDates == {r.date : r \in {x \in PostRows : ReachedAt(x.date)}}

\* the panel of tests/test_metrics.py: 150, 120, 105, 100 on days +1..+4
ExamplePost ==
    /\ decay_sale.baseline_players = Some(100)
    /\ config = DEFAULT_CONFIG
    /\ {<<r.date - decay_sale.sale_end_date, r.players_avg>> : r \in PostEndRows}
         = {<<1, Some(150)>>, <<2, Some(120)>>, <<3, Some(105)>>, <<4, Some(100)>>}

\* C4: compute_decay_days_to_baseline returns the offset from sale_end_date of
\* the earliest row, among the product's rows dated end+1 .. end+window in date
\* order, whose rolling median (window decay_roll_days, min_periods 1) is
\* <= baseline * (1 + tolerance); it returns a day only if such a row exists.
\* Baseline 100 with 150, 120, 105, 100 on days +1..+4 (roll 3, 5%) gives 4.
C4_DecayIsEarliestRowUnderThreshold ==
    (pc = "decayed" /\ NotNull(decay_sale.baseline_players)) =>
        /\ HitDates # {} => decay = Some(SetMin(HitDates) - decay_sale.sale_end_date)
        /\ NotNull(decay) => HitDates # {}
        /\ ExamplePost => decay = Some(4)

\* C4 witness: the documented example has been computed
C4_Witness == pc = "decayed" /\ ExamplePost /\ decay = Some(4)

\* the status compute_decay_days_to_baseline reports: None is Pending, a day
\* is a resolved, uncensored decay (the function has no censoring output)
ReportedDecayStatus ==
    IF IsNull(decay) THEN [status |-> "Pending"]
    ELSE [status |-> "Resolved", day |-> Val(decay), censored |-> FALSE]

\* the status the decay state machine prescribes for this panel snapshot
PrescribedDecayStatus ==
    IF {r \in PostEndRows : NotNull(r.players_avg)} = {} THEN [status |-> "Pending"]
    ELSE IF HitDates # {}
         THEN [status |-> "Resolved", day |-> SetMin(HitDates) - decay_sale.sale_end_date,
               censored |-> FALSE]
         ELSE [status |-> "Resolved", day |-> config.decay_window_days, censored |-> TRUE]

\* C5: the decay status is Pending when the panel has no post-end observation,
\* Resolved(k, uncensored) when the threshold is first reached at offset k, and
\* Resolved(decay_window_days, censored) when post-end data exists but the
\* threshold is never reached in the window (never Pending/null in that case).
C5_DecayStatusThreeWay ==
    (pc = "decayed" /\ NotNull(decay_sale.baseline_players)) =>
        ReportedDecayStatus = PrescribedDecayStatus

----------------------------------------------------------------------------
(* Properties of compute_aul (SpecAul) and add_sale_metrics (SpecMetrics) *)

RECURSIVE ExcessOverBaseline(_)
\* sum over the in-sale rows with a lift ratio of max(lift_ratio - 1, 0), in hundredths
ExcessOverBaseline(rows) ==
    IF rows = <<>> THEN 0
    ELSE (IF Head(rows).in_sale /\ NotNull(Head(rows).lift_ratio) /\ Val(Head(rows).lift_ratio) > 100
          THEN Val(Head(rows).lift_ratio) - 100 ELSE 0)
         + ExcessOverBaseline(Tail(rows))

AulExample ==
    event_window = <<[lift_ratio |-> Some(80), in_sale |-> TRUE],
                     [lift_ratio |-> Some(120), in_sale |-> TRUE],
                     [lift_ratio |-> Some(150), in_sale |-> TRUE]>>

\* C6: for a non-empty event window compute_aul is the sum over the in-sale
\* rows of max(lift_ratio - 1, 0), clamped per day, hence >= 0; rows with
\* in_sale false never contribute; ratios 0.8, 1.2, 1.5 in sale give 0.7.
C6_AulIsClampedSum ==
    (pc = "aul" /\ event_window # <<>>) =>
        /\ aul = Some(ExcessOverBaseline(event_window))
        /\ Val(aul) >= 0
        /\ AulExample => aul = Some(70)

\* C6 witness: the documented example has been computed
C6_Witness == pc = "aul" /\ AulExample /\ aul = Some(70)

MetricColumns == {"peak_lift_pct", "AUL", "decay_days_to_baseline"}
MetricLikeColumns ==
    MetricColumns \cup {"peak_lift_pct_x", "peak_lift_pct_y", "AUL_x", "AUL_y"}

\* C7: add_sale_metrics applied to its own output (same event window, panel and
\* config) returns the same number of rows, the same peak_lift_pct, AUL and
\* decay_days_to_baseline for every sale, and exactly one column for each of
\* the three metrics, none duplicated or suffixed.
C7_RefreshIsIdempotent ==
    passes >= 2 =>
        /\ Len(merged) = Len(sales)
        /\ \A i \in 1..Len(merged) :
              /\ merged[i].sale_id = sales[i].sale_id
              /\ (DOMAIN merged[i]) \cap MetricLikeColumns = MetricColumns
              /\ \A c \in MetricColumns : merged[i][c] = sales[i][c]
              /\ DOMAIN merged[i] = DOMAIN sales[i]

\* C7 witness: a refresh of a frame in which one sale has all three metrics
\* and another has no event-window rows
C7_Witness ==
    /\ passes >= 2
    /\ \E i \in 1..Len(merged) :
          /\ NotNull(merged[i].peak_lift_pct) /\ NotNull(merged[i].decay_days_to_baseline)
          /\ NotNull(merged[i].AUL) /\ Val(merged[i].AUL) > 0
    /\ \E i \in 1..Len(merged) : IsNull(merged[i].peak_lift_pct) /\ IsNull(merged[i].AUL)

----------------------------------------------------------------------------
(* Properties of add_buckets and build_playbook_table (SpecBuckets) *)

Bucketed == pc \in {"bucketed", "tabled"}
RawDepth(i) == sales[i].sale_depth_max
Unparsed(i) == IsNull(RawDepth(i)) \/ ~Val(RawDepth(i)).num
BelowRange(i) == ~Unparsed(i) /\ Val(RawDepth(i)).val < 0
AboveRange(i) == ~Unparsed(i) /\ Val(RawDepth(i)).val > 100
TierOf(i) == bucketed[i].discount_tier_bucket

\* C8 as stated: every sale gets a non-null discount_tier_bucket, and a sale
\* whose sale_depth_max is missing, non-numeric or out of range (below 0 or
\* above 100) gets the label "Unknown".
C8_OutOfRangeIsUnknown ==
    Bucketed =>
        \A i \in 1..Len(sales) :
            /\ NotNull(TierOf(i))
            /\ (Unparsed(i) \/ BelowRange(i) \/ AboveRange(i)) => TierOf(i) = Some("Unknown")

\* C8 amended: every sale gets a non-null discount_tier_bucket; a sale whose
\* sale_depth_max is missing or non-numeric gets the label "Unknown"; a depth
\* below 0 gets the lowest tier label and a depth above 100 the highest tier
\* label (the depth is clipped to [0, 100] before it is binned); "Unknown" is
\* given to no sale with a numeric depth.
C8_UnknownOnlyForUnparsedDepth ==
    Bucketed =>
        /\ Len(bucketed) = Len(sales)
        /\ \A i \in 1..Len(sales) :
            /\ NotNull(TierOf(i))
            /\ Unparsed(i) <=> TierOf(i) = Some("Unknown")
            /\ BelowRange(i) => TierOf(i) = Some(TierLabels(config)[1])
            /\ AboveRange(i) => TierOf(i) = Some(TierLabels(config)[5])

C8_Witness ==
    /\ Bucketed
    /\ \E i, j, k \in 1..Len(sales) :
        /\ IsNull(RawDepth(i)) /\ TierOf(i) = Some("Unknown")
        /\ AboveRange(j) /\ TierOf(j) = Some("76-100%")
        /\ BelowRange(k) /\ TierOf(k) = Some("0-10%")

KeyOf(r) == <<r.discount_tier_bucket, r.popularity_bucket, r.cadence_bucket>>
FullyBucketed(i) ==
    /\ NotNull(bucketed[i].discount_tier_bucket)
    /\ NotNull(bucketed[i].popularity_bucket)
    /\ NotNull(bucketed[i].cadence_bucket)
SalesIn(r) ==
    {i \in 1..Len(bucketed) :
        FullyBucketed(i) /\ <<Val(TierOf(i)), Val(bucketed[i].popularity_bucket),
                              Val(bucketed[i].cadence_bucket)>> = KeyOf(r)}

\* C9: every row of the table build_playbook_table returns has n_sales >= 1
\* and counts the sales of a (tier, popularity, cadence) combination that
\* occurs, "Unknown" tiers included; when the bucketed input has at least one
\* fully bucketed sale the table is not empty.
C9_NoZeroCountRows ==
    pc = "tabled" =>
        /\ \A r \in playbook : r.n_sales >= 1 /\ r.n_sales = Cardinality(SalesIn(r))
        /\ (\E i \in 1..Len(bucketed) : FullyBucketed(i)) => playbook # {}

C9_Witness ==
    /\ pc = "tabled"
    /\ \E r \in playbook : r.discount_tier_bucket = "Unknown" /\ r.n_sales >= 1
    /\ \E i \in 1..Len(bucketed) : ~FullyBucketed(i)

----------------------------------------------------------------------------
(* Properties of collapse_tiers_for_segment (SpecCollapse) *)

LastSegment == calls[Len(calls)]
OtherColumnsKept(before, after) ==
    /\ after.sale_id = before.sale_id
    /\ after.k = before.k
    /\ after.segment = before.segment

\* C10: a call collapse_tiers_for_segment(df, s, notes) leaves the caller's
\* frame as it was and returns a frame with the same rows in which every row
\* of another segment keeps its discount_tier_bucket, collapsed or not; a row
\* whose label differs is a row of segment s that was labelled "51-75%" or
\* "76-100%" and is now labelled "51%+".
C10_CollapseIsSegmentLocal ==
    [][calls' # calls =>
        /\ df' = df
        /\ Len(returned') = Len(df)
        /\ \A i \in 1..Len(df) :
            /\ OtherColumnsKept(df[i], returned'[i])
            /\ df[i].segment # calls'[Len(calls')]
                 => returned'[i].discount_tier_bucket = df[i].discount_tier_bucket
            /\ returned'[i].discount_tier_bucket # df[i].discount_tier_bucket
                 => /\ df[i].segment = calls'[Len(calls')]
                    /\ df[i].discount_tier_bucket \in {"51-75%", "76-100%"}
                    /\ returned'[i].discount_tier_bucket = "51%+"]_vars

C10_Witness ==
    /\ calls # <<>>
    /\ \E i, j \in 1..Len(df) :
        /\ df[i].segment = LastSegment
        /\ df[i].discount_tier_bucket = "76-100%"
        /\ returned[i].discount_tier_bucket = "51%+"
        /\ df[j].segment # LastSegment
        /\ df[j].discount_tier_bucket = "51-75%"
        /\ returned[j].discount_tier_bucket = "51-75%"

----------------------------------------------------------------------------
(* Properties of assign_segments (SpecSegments) *)

FiniteRun(i) == NotNull(baseline_value[i].value) /\ Val(baseline_value[i].value) \notin {Inf, -Inf}
FiniteValues == {Val(baseline_value[i].value) : i \in {j \in 1..Len(baseline_value) : FiniteRun(j)}}
LastAssigned == assigned[Len(assigned)]

\* C11: assign_segments does not raise, whatever the baseline distribution;
\* when the quantile cut fails, in the first assignment or in the widened
\* one, the labels come from the percentile-rank binning, and every entry
\* with a finite non-null baseline has a label of tail, mid or head.
C11_SegmentsNeverRaise ==
    \A c \in 1..Len(assigned) :
        /\ ~assigned[c].raised
        /\ pc # "error"
        /\ Len(assigned[c].segments) = Len(baseline_value)
        /\ \A i \in 1..Len(baseline_value) :
            FiniteRun(i) <=> assigned[c].segments[i] \in {"tail", "mid", "head"}

\* ties that duplicate a quantile edge in the widened reassignment, which
\* the rank-based binning recovers
C11_Witness ==
    /\ assigned # <<>>
    /\ Len(LastAssigned.rank_binned) = 2
    /\ LastAssigned.rank_binned[2]
    /\ Cardinality(FiniteValues) >= 2
    /\ \E i \in 1..Len(baseline_value) : LastAssigned.segments[i] = "head"

NotesBefore(c) == IF c = 1 THEN <<>> ELSE assigned[c - 1].notes
RankBinnings(c) == Cardinality({k \in 1..Len(assigned[c].rank_binned) : assigned[c].rank_binned[k]})

\* C13: every non-fatal condition of a call leaves a note, in order: the
\* small-sample tercile switch, each rank-based recovery of a failed quantile
\* cut, and the tail widening add one note each to the notes list (an
\* insufficient-sample segment one more), so no fallback changes the labels
\* without a note.
C13_EveryFallbackIsNoted ==
    \A c \in 1..Len(assigned) :
        /\ SubSeq(assigned[c].notes, 1, Len(NotesBefore(c))) = NotesBefore(c)
        /\ Len(assigned[c].notes) - Len(NotesBefore(c)) >=
              (IF NEvents(baseline_value) < SMALL_SAMPLE_N THEN 1 ELSE 0)
              + RankBinnings(c)
              + (IF Len(assigned[c].rank_binned) = 2 THEN 1 ELSE 0)

----------------------------------------------------------------------------
(* Properties of the input checks (SpecInputs) *)

\* the column a call needs for its metric
MetricColumn ==
    IF outcome.call = "metric_config"
    THEN (CASE outcome.metric = "playercount" -> "players"
            [] outcome.metric = "units" -> "metric_daily_units"
            [] outcome.metric = "revenue" -> "metric_daily_revenue")
    ELSE outcome.metric
Failed == NotNull(outcome.error) /\ IsNull(outcome.result)
Names(field) == field \in Range(Val(outcome.error).message)
PriceMissing ==
    /\ outcome.call = "detect_sales"
    /\ "discount_pct" \notin DOMAIN columns \/ columns["discount_pct"] = 0

\* C12: a run whose frame lacks the metric column it needs fails, names that
\* column and gives no result; detect_sales also fails when discount_pct is
\* absent (naming it) or entirely null; a run that does not fail reads the
\* selected column and no other.
C12_MissingColumnIsFatal ==
    pc = "checked" =>
        /\ MetricColumn \notin DOMAIN columns => Failed /\ Names(MetricColumn)
        /\ PriceMissing => Failed
        /\ (PriceMissing /\ MetricColumn \in DOMAIN columns /\ "discount_pct" \notin DOMAIN columns)
              => Names("discount_pct")
        /\ Failed <=> (MetricColumn \notin DOMAIN columns \/ PriceMissing)
        /\ ~Failed =>
              /\ IsNull(outcome.error)
              /\ outcome.call = "metric_config" => Val(outcome.result).metric_col = MetricColumn
              /\ outcome.call # "metric_config" => Val(outcome.result).player_metric = MetricColumn

C12_Witness ==
    /\ pc = "checked"
    /\ outcome.call = "detect_sales"
    /\ outcome.metric = "players_avg"
    /\ "players_max" \in DOMAIN columns
    /\ "discount_pct" \in DOMAIN columns
    /\ Failed /\ Names("players_avg")

----------------------------------------------------------------------------
(* Per-product independence of detect_sales (SpecSales) *)

HasPrice(p) == \E r \in AppDf(panel, p) : NotNull(r.discount_pct)
\* detect_sales on the rows of product p alone
Solo(p) == DetectSalesRun(AppDf(panel, p), config)
\* the records of the run over the whole panel that belong to product p
RecordsOf(p) == SelectSeq2(sales, [i \in 1..Len(sales) |-> sales[i].app_id = p])
\* detect_sales on each product's rows alone
SoloRuns == [p \in AppIds(panel) |-> Solo(p)]
RECURSIVE SoloExcluded(_, _)
\* exclusions counted by the runs on the rows of each of the products apps
SoloExcluded(solo, apps) ==
    IF apps = {} THEN 0
    ELSE LET a == SetMin(apps)
         IN  solo[a].excluded + SoloExcluded(solo, apps \ {a})

\* C14 as stated: after a run over the whole panel, for every product p the
\* run on p's rows alone returns exactly p's records of the whole run, and
\* the exclusions of the whole run are those of the runs on each product.
C14_PerProductIndependence ==
    pc = "ok" =>
        \E solo \in {SoloRuns} :
            /\ \A p \in AppIds(panel) :
                  /\ ~solo[p].raised
                  /\ solo[p].sales = RecordsOf(p)
            /\ info.excluded = SoloExcluded(solo, AppIds(panel))

\* C14 amended: the same for every product that has at least one non-null
\* discount_pct; for a product whose discount_pct is entirely null the run
\* on its rows alone raises, while the whole run has no record and no
\* exclusion for it.
C14_PerProductIndependenceWithPrice ==
    pc = "ok" =>
        \E solo \in {SoloRuns} :
            /\ \A p \in AppIds(panel) :
                  IF HasPrice(p)
                  THEN /\ ~solo[p].raised
                       /\ solo[p].sales = RecordsOf(p)
                  ELSE /\ solo[p].raised
                       /\ RecordsOf(p) = <<>>
            /\ info.excluded = SoloExcluded(solo, {p \in AppIds(panel) : HasPrice(p)})

C14_Witness ==
    /\ pc = "ok"
    /\ \A p \in Apps : RecordsOf(p) # <<>> /\ HasPrice(p)
    /\ \E i \in 1..Len(sales) : sales[i].sale_days_last_90d > 0

----------------------------------------------------------------------------
(* Properties of the event window (SpecWindow) *)

Built == pc \in {"built", "peaks"}
Finite(x) == NotNull(x) /\ Val(x) \notin {Inf, -Inf}
RowsPerWindow == config.event_window_pre_days + config.event_window_post_days + 1
PanelHas(app_id, date) == \E r \in panel : r.app_id = app_id /\ r.date = date

\* C16: compute_lift_pct(players, baseline) is (players / baseline - 1) * 100
\* wherever the baseline is not zero (150 over 100 gives 50), and the
\* lift_pct of an event-window row is (lift_ratio - 1) * 100 of that row.
C16_LiftPctFormula ==
    /\ ComputeLiftPct(Some(150), Some(100)) = Some(50)
    /\ Built => \A i \in 1..Len(event_window) :
         LET row == event_window[i]
             pct == ComputeLiftPct(row.players, row.baseline_players)
         IN  /\ (NotNull(row.players) /\ Val(row.baseline_players) # 0) =>
                    /\ NotNull(pct)
                    /\ Val(pct) * Val(row.baseline_players)
                          = 100 * (Val(row.players) - Val(row.baseline_players))
             /\ IsNull(row.lift_ratio) <=> IsNull(row.lift_pct)
             /\ Finite(row.lift_ratio) => row.lift_pct = Some(Val(row.lift_ratio) - 100)

C16_Witness ==
    /\ Built
    /\ \E i \in 1..Len(event_window) :
         /\ event_window[i].players = Some(150)
         /\ event_window[i].baseline_players = Some(50)
         /\ event_window[i].lift_ratio = Some(300)
         /\ event_window[i].lift_pct = Some(200)

\* C19: for every sale the event window has exactly one row for each k in
\* -pre_days..post_days (29 with the defaults), dated sale_start_date + k;
\* where the panel has no row for the product and date, players, lift_ratio
\* and lift_pct are null and the row is there all the same.
C19_OneRowPerOffset ==
    Built =>
        /\ Len(event_window) = Len(sales) * RowsPerWindow
        /\ config = DEFAULT_CONFIG => RowsPerWindow = 29
        /\ \A s \in 1..Len(sales) :
             \A k \in (-config.event_window_pre_days)..config.event_window_post_days :
                LET hits == {i \in 1..Len(event_window) :
                                event_window[i].sale_id = sales[s].sale_id /\ event_window[i].k = k}
                IN  /\ Cardinality(hits) = 1
                    /\ \A i \in hits :
                         /\ event_window[i].date = sales[s].sale_start_date + k
                         /\ ~PanelHas(sales[s].app_id, event_window[i].date) =>
                               /\ IsNull(event_window[i].players)
                               /\ IsNull(event_window[i].lift_ratio)
                               /\ IsNull(event_window[i].lift_pct)
                         /\ PanelHas(sales[s].app_id, event_window[i].date) =>
                               NotNull(event_window[i].players)

C19_Witness ==
    /\ Built
    /\ config = DEFAULT_CONFIG
    /\ Len(sales) = 2
    /\ Len(event_window) = 58
    /\ \E i \in 1..Len(event_window) : NotNull(event_window[i].players)
    /\ \E i \in 1..Len(event_window) :
         event_window[i].app_id = 1 /\ IsNull(event_window[i].players)

\* C20 as stated: a row whose baseline is not above 0, or is below the floor,
\* has a null lift_pct; a row whose baseline is above 0 and at or above the
\* floor has a lift_pct whenever its engagement value is present.  Both for
\* the rows of build_event_window (no floor) and for those of compute_peaks.
C20_LiftPctNullBelowFloor ==
    /\ Built => \A i \in 1..Len(event_window) :
         LET row == event_window[i]
         IN  /\ ~(Val(row.baseline_players) > 0) => IsNull(row.lift_pct)
             /\ (Val(row.baseline_players) > 0 /\ NotNull(row.players)) => Finite(row.lift_pct)
    /\ pc = "peaks" => \A i \in 1..Len(peaks.post) :
         LET row == peaks.post[i]
             low == \/ IsNull(row.baseline_value)
                    \/ ~(Val(row.baseline_value) > 0)
                    \/ Val(row.baseline_value) < peaks.baseline_floor
         IN  /\ low => IsNull(row.lift_pct)
             /\ (~low /\ NotNull(row.players)) => Finite(row.lift_pct)

----------------------------------------------------------------------------
(* The baseline window with the default parameters (SpecSales) *)

\* the non-null metric values of product a dated from start - 14 up to, and
\* not including, the day before start
BeforeDayBefore(a, start) ==
    MetricValues({r \in panel : r.app_id = a /\ start - 14 <= r.date /\ r.date < start - 1})

\* C18 as stated: with the default parameters a returned sale's baseline is
\* computed from the observations dated start - 14 .. start - 2 only: they
\* are the 7 or more sample days, and baseline_players is their median.
C18_DayBeforeStartExcluded ==
    (pc = "ok" /\ config = DEFAULT_CONFIG) =>
        \A i \in 1..Len(sales) :
            LET used == BeforeDayBefore(sales[i].app_id, sales[i].sale_start_date)
            IN  /\ Len(used) >= MIN_BASELINE_DAYS
                /\ sales[i].baseline_players = Median(used)

----------------------------------------------------------------------------
(* Properties of infer_app_id_from_path (SpecPath) *)

\* the maximal runs of decimal digits of the stem, as pairs of positions
DigitRuns(stem) ==
    {r \in (1..Len(stem)) \X (1..Len(stem)) :
        /\ r[1] <= r[2]
        /\ \A i \in r[1]..r[2] : IsDecimalChar(stem[i])
        /\ r[1] = 1 \/ ~IsDecimalChar(stem[r[1] - 1])
        /\ r[2] = Len(stem) \/ ~IsDecimalChar(stem[r[2] + 1])}
\* the longest run, the leftmost of the longest
LongestRun(stem) ==
    CHOOSE r \in DigitRuns(stem) : \A q \in DigitRuns(stem) :
        \/ r[2] - r[1] > q[2] - q[1]
        \/ r[2] - r[1] = q[2] - q[1] /\ r[1] <= q[1]

\* C17 as stated: once the call is over it has returned, never raised: None
\* for the path None and for a stem without a digit, else the integer value
\* of the longest run of digits of the stem (the whole stem when it is all
\* digits), the leftmost of the longest.
C17_LongestLeftmostDigitRun ==
    pc \in {"inferred", "error"} =>
        /\ ~inferred.raised
        /\ IF IsNull(path) THEN inferred.value = Null
           ELSE LET stem == Stem(Val(path))
                IN  IF DigitRuns(stem) = {} THEN inferred.value = Null
                    ELSE inferred.value
                            = Some(DecimalNumber(SubSeq(stem, LongestRun(stem)[1],
                                                        LongestRun(stem)[2])))

----------------------------------------------------------------------------
(* The peak window of compute_peaks (SpecWindow) *)

\* the lift_pct values, by the formula of compute_peaks, of the rows of a
\* sale at the offsets 0 .. peak_window_days that have one
LiftPctInPeakWindow(sale_id) ==
    LET event_df == WithBaseline(event_window)
    IN  {Val(RowLiftPct(event_df[i].players, event_df[i].baseline_value, peaks.baseline_floor)) :
            i \in {j \in 1..Len(event_df) :
                      /\ event_df[j].sale_id = sale_id
                      /\ event_df[j].k >= 0 /\ event_df[j].k <= config.peak_window_days
                      /\ NotNull(RowLiftPct(event_df[j].players, event_df[j].baseline_value,
                                            peaks.baseline_floor))}}

\* C21 as stated, for the peak_lift_pct that compute_peaks records: it is the
\* maximum of the non-null lift_pct over the rows with 0 <= k <=
\* peak_window_days, and null exactly when there is none.
C21_PeakOverPeakWindow ==
    pc = "peaks" =>
        \A id \in DOMAIN peaks.returned :
            LET vals == LiftPctInPeakWindow(id)
            IN  peaks.returned[id].peak_lift_pct
                    = (IF vals = {} THEN Null ELSE Some(SetMax(vals)))

----------------------------------------------------------------------------
(* The days the AUL covers (SpecMetrics) *)

\* max(lift_ratio - 1, 0), in hundredths, summed over the calendar days of a
\* sale from its start to its end, the days without a metric skipped
ExcessOverEpisode(sale) ==
    SumSeq([d \in 1..(sale.sale_end_date - sale.sale_start_date + 1) |->
              ClippedExcess(ComputeLiftRatio(
                  PanelMetric(panel, sale.app_id, sale.sale_start_date + d - 1),
                  sale.baseline_players))])

\* C22 as stated: the AUL recorded for a sale that the event window covers is
\* the excess accumulated over every day of the episode, start to end.
C22_AulCoversWholeEpisode ==
    pc = "metrics" =>
        \A i \in 1..Len(merged) :
            (\E j \in 1..Len(event_window) : event_window[j].sale_id = merged[i].sale_id)
                => merged[i].AUL = Some(ExcessOverEpisode(merged[i]))

----------------------------------------------------------------------------
(* Cadence annotation of the returned sales (SpecSales) *)

\* the maximal discount runs of product a that start before the date start
EarlierRuns(a, start) == {run \in MaximalRuns(a) : run[1] < start}
\* the last day of the latest of them
PreviousEnd(a, start) == SetMax({run[2] : run \in EarlierRuns(a, start)})

\* C23 as stated: days_since_last_sale of a returned record is the number of
\* days from the end of the product's immediately preceding detected episode
\* to the record's start, and null exactly when there is no earlier episode.
C23_DaysSincePrecedingEpisode ==
    pc = "ok" =>
        \A i \in 1..Len(sales) :
            LET a == sales[i].app_id
                start == sales[i].sale_start_date
            IN  sales[i].days_since_last_sale
                    = (IF EarlierRuns(a, start) = {} THEN Null
                       ELSE Some(start - PreviousEnd(a, start)))

\* the lookback window of a record: the N days that end the day before it starts
Lookback(start) == (start - config.cadence_lookback_days)..(start - 1)

\* C24: for every returned record, over the N days that end the day before
\* its start, sales_count_last_N is the number of the product's earlier
\* episodes with a day in the window, sale_days_last_N the number of the
\* product's discount days in the window, and sale_share_last_N their
\* fraction of N, which lies between 0 and 1; the episode and its own days
\* are not counted.
C24_CadenceOverLookback ==
    pc = "ok" =>
        \A i \in 1..Len(sales) :
            LET a == sales[i].app_id
                W == Lookback(sales[i].sale_start_date)
                earlier == {run \in EarlierRuns(a, sales[i].sale_start_date) :
                               \E d \in W : run[1] <= d /\ d <= run[2]}
                days == {d \in W : DiscountDay(a, d)}
            IN  /\ sales[i].sales_count_last_90d = Cardinality(earlier)
                /\ sales[i].sale_days_last_90d = Cardinality(days)
                /\ sales[i].sale_share_last_90d
                      = <<Cardinality(days), config.cadence_lookback_days>>
                /\ 0 <= sales[i].sale_share_last_90d[1]
                /\ sales[i].sale_share_last_90d[1] <= sales[i].sale_share_last_90d[2]

\* C24 witness: a short lookback, a record with an earlier episode partly
\* inside the window, one of that episode's days lying before the window
C24_Witness ==
    /\ pc = "ok"
    /\ config.cadence_lookback_days = 2
    /\ \E i \in 1..Len(sales) :
          /\ sales[i].sales_count_last_90d = 1
          /\ sales[i].sale_days_last_90d = 1
          /\ \E d \in PanelDates :
                /\ d < sales[i].sale_start_date - 2
                /\ DiscountDay(sales[i].app_id, d)

----------------------------------------------------------------------------
(* Properties of _seasonal_overlap (SpecSeason) *)

\* the days of the four seasonal windows that begin in year y
SeasonDays(y) ==
    (Date(y, 3, 15)..Date(y, 3, 31)) \cup (Date(y, 6, 15)..Date(y, 7, 15))
        \cup (Date(y, 11, 15)..Date(y, 11, 30)) \cup (Date(y, 12, 15)..Date(y + 1, 1, 10))

\* C25: _seasonal_overlap(start, end) is true exactly when a seasonal window
\* of some calendar year shares a day with [start, end], the winter window
\* running from Dec 15 into Jan 10 of the next year.
C25_SeasonalOverlapIffSharedDay ==
    pc = "tagged" =>
        (Val(tagged) <=>
            \E y \in (YearOf(sale_span.start) - 2)..(YearOf(sale_span.end) + 1) :
                \E d \in SeasonDays(y) : sale_span.start <= d /\ d <= sale_span.end)

\* C25 witness: an episode wholly in early January, inside the winter window
\* that began the December before, is tagged
C25_Witness ==
    /\ pc = "tagged"
    /\ sale_span.start = Date(2020, 1, 3)
    /\ sale_span.end = Date(2020, 1, 5)
    /\ Val(tagged)

----------------------------------------------------------------------------
(* The small-sample policy of assign_segments (SpecSegments) *)

\* the sales of the series that have a baseline
Episodes(baseline) == Cardinality({i \in 1..Len(baseline) : NotNull(baseline[i].value)})

\* C26: the first call on a series records the small-sample note exactly when
\* fewer than 200 sales have a baseline, however many event rows they have
C26_SplitByEpisodeCount ==
    Len(assigned) >= 1 =>
        (NOTE_TERCILES \in Range(assigned[1].notes)
            <=> Episodes(baseline_value) < SMALL_SAMPLE_N)

----------------------------------------------------------------------------
(* The small-segment fallback of assign_segments (SpecSegments) *)

\* the members of a segment: the event rows labelled with it
Members(labels, seg) ==
    SumSeq([i \in 1..Len(baseline_value) |->
               IF labels[i] = seg THEN baseline_value[i].n ELSE 0])
Smallest(labels) == SetMin({Members(labels, seg) : seg \in {"tail", "mid", "head"}})

IsPrefix(head, whole) == Len(head) <= Len(whole) /\ SubSeq(whole, 1, Len(head)) = head

\* what call c appended to the notes list handed to it
Appended(c) == SubSeq(assigned[c].notes, Len(NotesBefore(c)) + 1, Len(assigned[c].notes))
InitialSplit == IF NEvents(baseline_value) < SMALL_SAMPLE_N THEN TERCILES ELSE QUANTILES_40_80
SplitNote == IF NEvents(baseline_value) < SMALL_SAMPLE_N THEN <<NOTE_TERCILES>> ELSE <<>>

\* C27: a call keeps the labels of the initial split points and appends
\* neither fallback note when the smallest of the three segments has 25
\* members; otherwise it returns the labels of the split points 0/0.5/0.8/1
\* and appends the widening note, followed by the insufficient-sample note
\* exactly when the smallest segment is still below 25; it never raises
C27_FallbackOrder ==
    \A c \in 1..Len(assigned) :
        \E first \in {CutSegments(Clean(baseline_value), InitialSplit).segments} :
            /\ ~assigned[c].raised
            /\ IsPrefix(NotesBefore(c), assigned[c].notes)
            /\ IF Smallest(first) >= MIN_SEGMENT_N
               THEN /\ assigned[c].segments = first
                    /\ Appended(c) = SplitNote
               ELSE /\ assigned[c].segments
                        = CutSegments(Clean(baseline_value), QUANTILES_50_80).segments
                    /\ Appended(c)
                        = SplitNote \o <<NOTE_WIDENED>>
                            \o (IF Smallest(assigned[c].segments) < MIN_SEGMENT_N
                                THEN <<NOTE_INSUFFICIENT>> ELSE <<>>)

\* a call that widened a tail without members and needed no further note
C27_Witness ==
    /\ assigned # <<>>
    /\ Appended(1) = <<NOTE_TERCILES, NOTE_WIDENED>>
    /\ Smallest(CutSegments(Clean(baseline_value), InitialSplit).segments) = 0
    /\ Smallest(assigned[1].segments) >= MIN_SEGMENT_N

----------------------------------------------------------------------------
(* When collapse_tiers_for_segment collapses (SpecCollapse) *)

\* the sales of a segment that fall in a discount tier
EpisodesIn(frame, seg, tier) ==
    Cardinality({frame[i].sale_id :
                    i \in {j \in 1..Len(frame) :
                              frame[j].segment = seg /\ frame[j].discount_tier_bucket = tier}})
SomeTierShort(frame, seg) ==
    \E tier \in Range(DISCOUNT_TIER_ORDER) : EpisodesIn(frame, seg, tier) < MIN_TIER_N

\* C28: a call collapses the top two tiers of its segment, returns the
\* four-tier order and appends the note naming the segment exactly when one of
\* the five tiers has fewer than 10 sales in the segment; otherwise labels,
\* five-tier order and notes are as before
C28_CollapseIffTierShort ==
    pc = "collapsed" =>
        LET seg == calls[Len(calls)]
        IN  IF SomeTierShort(df, seg)
            THEN /\ tier_order = COLLAPSED_TIER_ORDER
                 /\ notes # <<>> /\ notes[Len(notes)] = CollapseNote(seg)
                 /\ \A i \in 1..Len(df) :
                        df[i].segment = seg
                            => returned[i].discount_tier_bucket \notin {"51-75%", "76-100%"}
            ELSE /\ tier_order = DISCOUNT_TIER_ORDER
                 /\ returned = df

----------------------------------------------------------------------------
(* The pre-period bias check (SpecBias) *)

\* the lifts of a (segment, tier) pair over the rows before day 0 whose
\* baseline reaches the floor and whose lift is defined
PrePeriodLifts(seg, tier) ==
    LET rows == SelectSeq2(bias_df,
                    [i \in 1..Len(bias_df) |->
                        /\ bias_df[i].k < 0
                        /\ bias_df[i].segment = seg /\ bias_df[i].discount_tier_bucket = tier
                        /\ NotNull(bias_df[i].baseline_value)
                        /\ Val(bias_df[i].baseline_value) >= warnings.baseline_floor
                        /\ NotNull(bias_df[i].players)
                        /\ Val(bias_df[i].baseline_value) # 0])
    IN  [i \in 1..Len(rows) |->
            <<100 * (Val(rows[i].players) - Val(rows[i].baseline_value)),
              Val(rows[i].baseline_value)>>]

FlaggedPairs == {<<warnings.flagged[n][1], warnings.flagged[n][2]>> : n \in 1..Len(warnings.flagged)}

\* C29: the pairs returned are exactly the (segment, tier) pairs whose median
\* lift over the rows with k < 0 is above 5 or below -5
C29_FlagsPrePeriodBias ==
    pc = "checked" =>
        \A s \in 1..Len(BiasSegments) :
            \E lifts \in {PrePeriodLifts(BiasSegments[s], BiasTier)} :
                <<BiasSegments[s], BiasTier>> \in FlaggedPairs
                    <=> (lifts # <<>> /\ AbsAbove5(MedianFrac(lifts)))

----------------------------------------------------------------------------
(* Returned episodes of a product never touch (SpecSales) *)

\* C30: a days_since_last_sale that is not null is at least 2, and between
\* two returned records of a product lies a calendar day that is not a
\* discount day of the product
C30_EpisodesNeverTouch ==
    pc = "ok" =>
        /\ \A i \in 1..Len(sales) :
              NotNull(sales[i].days_since_last_sale)
                  => Val(sales[i].days_since_last_sale) >= 2
        /\ \A i \in 1..Len(sales) : \A j \in 1..Len(sales) :
              (sales[i].app_id = sales[j].app_id
                    /\ sales[i].sale_start_date < sales[j].sale_start_date)
                  => \E d \in (sales[i].sale_end_date + 1)..(sales[j].sale_start_date - 1) :
                         ~DiscountDay(sales[i].app_id, d)

\* C30 witness: a record that starts two days after the end of the record
\* before it, in a run that excluded an episode
C30_Witness ==
    /\ pc = "ok"
    /\ info.excluded > 0
    /\ \E i \in 1..Len(sales) : sales[i].days_since_last_sale = Some(2)

====
